---- MODULE Spec2Model ----
(***************************************************************************)
(* A model of sr-compare-tool: the display-scaling cache, the zoom/fit     *)
(* arithmetic, the redraw path and its debounce timer, the button-1        *)
(* handlers (pan, slider, toggle), the canvas/image coordinate mapping,    *)
(* the image-load workers and the background PSNR calculation.             *)
(*                                                                         *)
(* Zoom factors are Python floats in the program.  They are modelled as    *)
(* exact positive rationals  n/d * (5/4)^e  (record [n, d, e]) so that     *)
(* the 1.25 zoom ladder between ZOOM_MIN and ZOOM_MAX fits in TLC's        *)
(* integers; comparisons and truncations go through a small arbitrary      *)
(* precision layer (sequences of base-1000 limbs, least significant first).*)
(***************************************************************************)
EXTENDS Integers, Sequences, FiniteSets, TLC

\* ------------------------------------------------------------------------
\* Bounds of the model
\* ------------------------------------------------------------------------

\* max_cache_size handed to get_disp_image_scaled (Config.MAX_CACHE_SIZE is
\* 100 in the program; the model runs the same code with a small capacity)
MaxCacheSize == 2

\* the load requests (load threads started) of a run
MaxLoads == 3

\* the zoom_in / zoom_out calls of a run
MaxZoomOps == 4

\* the load requests of a run that exercises the zoom keys
MaxZoomLoads == 1

\* the load requests of a run that exercises the mode keys
MaxModeLoads == 2

\* the load requests of a run that replaces images of different sizes
MaxAlignLoads == 2

\* the load requests of a run that exercises the mouse
MaxMouseLoads == 2

\* the wheel steps of a run that exercises the mouse
MaxMouseZooms == 1

\* the non-immediate refresh requests of a run
MaxRequests == 3

\* the load requests of a run that exercises the refresh requests
MaxRefreshLoads == 1

\* ------------------------------------------------------------------------
\* Arbitrary precision naturals
\* ------------------------------------------------------------------------

Limb == 10 * 10 * 10

RECURSIVE BigOf(_)
BigOf(x) == IF x = 0 THEN <<>> ELSE <<x % Limb>> \o BigOf(x \div Limb)

RECURSIVE BigMulC(_, _, _)
BigMulC(X, m, carry) ==
    IF X = <<>> THEN BigOf(carry)
    ELSE LET t == Head(X) * m + carry
         IN  <<t % Limb>> \o BigMulC(Tail(X), m, t \div Limb)

BigMul(X, m) == IF m = 0 THEN <<>> ELSE BigMulC(X, m, 0)

RECURSIVE BigMulPow(_, _, _)
BigMulPow(X, m, k) == IF k = 0 THEN X ELSE BigMulPow(BigMul(X, m), m, k - 1)

RECURSIVE BigStrip(_)
BigStrip(X) ==
    IF X = <<>> THEN X
    ELSE IF X[Len(X)] = 0 THEN BigStrip(SubSeq(X, 1, Len(X) - 1)) ELSE X

\* floor(X / m), long division from the most significant limb
RECURSIVE BigDivR(_, _, _, _)
BigDivR(X, m, i, rem) ==
    IF i = 0 THEN <<>>
    ELSE LET t == rem * Limb + X[i]
         IN  BigDivR(X, m, i - 1, t % m) \o <<t \div m>>

BigDiv(X, m) == BigStrip(BigDivR(X, m, Len(X), 0))

RECURSIVE BigDivPow(_, _, _)
BigDivPow(X, m, k) == IF k = 0 THEN X ELSE BigDivPow(BigDiv(X, m), m, k - 1)

RECURSIVE BigLeFrom(_, _, _)
BigLeFrom(X, Y, i) ==
    IF i = 0 THEN TRUE
    ELSE IF X[i] # Y[i] THEN X[i] < Y[i] ELSE BigLeFrom(X, Y, i - 1)

BigLe(X, Y) ==
    \/ Len(X) < Len(Y)
    \/ Len(X) = Len(Y) /\ BigLeFrom(X, Y, Len(X))

RECURSIVE BigToInt(_)
BigToInt(X) == IF X = <<>> THEN 0 ELSE Head(X) + Limb * BigToInt(Tail(X))

\* ------------------------------------------------------------------------
\* Exact rationals  n/d * (5/4)^e  (the float values of zoom)
\* ------------------------------------------------------------------------

RECURSIVE Gcd(_, _)
Gcd(a, b) == IF b = 0 THEN a ELSE Gcd(b, a % b)

\* canonical form: n/d in lowest terms and free of the factor 5
RECURSIVE RatNorm(_, _, _)
RatNorm(n, d, e) ==
    IF n % 5 = 0 THEN RatNorm(4 * (n \div 5), d, e + 1)
    ELSE IF d % 5 = 0 THEN RatNorm(n, 4 * (d \div 5), e - 1)
    ELSE LET g == Gcd(n, d) IN [n |-> n \div g, d |-> d \div g, e |-> e]

Rat(n, d) == RatNorm(n, d, 0)

\* a <= b
RatLe(a, b) ==
    LET k == a.e - b.e
        L == BigOf(a.n * b.d)
        R == BigOf(b.n * a.d)
    IN  IF k >= 0 THEN BigLe(BigMulPow(L, 5, k), BigMulPow(R, 4, k))
        ELSE BigLe(BigMulPow(L, 4, -k), BigMulPow(R, 5, -k))

RatMin(a, b) == IF RatLe(a, b) THEN a ELSE b
RatMax(a, b) == IF RatLe(a, b) THEN b ELSE a

\* int(m * z) for a natural m: Python's int() truncates, z > 0
RatFloorMul(m, z) ==
    LET X == BigOf(m * z.n)
    IN  IF z.e >= 0
        THEN BigToInt(BigDiv(BigDivPow(BigMulPow(X, 5, z.e), 4, z.e), z.d))
        ELSE BigToInt(BigDiv(BigDivPow(BigMulPow(X, 4, -z.e), 5, -z.e), z.d))

\* round(z, 6), in millionths: the nearest multiple of 1e-6
Round6(z) ==
    LET X  == BigMul(BigMul(BigOf(z.n), 2000), 1000)
        F2 == IF z.e >= 0
              THEN BigDiv(BigDivPow(BigMulPow(X, 5, z.e), 4, z.e), z.d)
              ELSE BigDiv(BigDivPow(BigMulPow(X, 4, -z.e), 5, -z.e), z.d)
    IN  BigToInt(BigDiv(BigMulC(F2, 1, 1), 2))

\* ------------------------------------------------------------------------
\* State
\* ------------------------------------------------------------------------

VARIABLES
    \* -- SRCompareApp / ViewController / PSNRCalculator fields (main.py,
    \*    view_controller.py, psnr_calculator.py)
    disp_cache,     \* app._disp_cache: OrderedDict, oldest first, of
                    \*   [key |-> <<id(im), round(zoom, 6)>>, bmp |-> bitmap]
    zoom,           \* view_controller.zoom
    pan_x, pan_y,   \* view_controller.pan_x, pan_y
    split_pos,      \* app.split_pos
    mode,           \* app.mode
    toggle_idx,     \* app.toggle_idx
    toggle_pressed, \* app.toggle_pressed
    dragging,       \* app.dragging
    slider_drag,    \* app.slider_drag
    last_drag_x, last_drag_y,   \* app.last_drag_x, last_drag_y
    im1_orig, im2_orig, im1_raw, im2_raw,
    im_diff, im_diff_key, im_diff_key2,
    im1_path, im2_path,     \* app.im1_path, im2_path: the file of each slot
    loading,        \* app._loading
    status,         \* ui_manager.status_lbl text (which message it shows)
    current_psnr,   \* psnr_calculator.current_psnr
    in_progress,    \* psnr_calculator._calculation_in_progress
    refresh_after_id,   \* app._refresh_after_id: the id root.after returned
                        \*   for the last debounced redraw, or NoTimer (None)
    folder_mode, folder1_set, folder2_set, total_images, current_image_index,
    \* -- the environment of the program
    cw, ch,         \* canvas_left.winfo_width(), winfo_height()
    load_threads,   \* the running image-load threads
    psnr_threads,   \* the running PSNR threads
    main_queue,     \* callbacks posted with root.after(0, ...), in order
    nextId,         \* id() of the next image object created
    timers,         \* Tk: the ids of the pending after(80, _do_refresh) timers
    nextTimer,      \* Tk: the id the next root.after call returns
    press,          \* the mouse: is button 1 down, and toggle_idx before
                    \*   the press if the press flipped it (else 0)
    probe,          \* the last image point mapped to the canvas and back
    canvas,         \* what the last inspected redraw put on canvas_left
    pixels,         \* the pixels of im1_orig and im2_orig, where they matter
    \* -- history
    ctx,            \* the context the last step ran on: "ui" or "worker"
    act,            \* the handler or thread step that ran last
    raised,         \* the last handler let an exception escape
    redraws,        \* the redraws the last handler completed
    nLoads,         \* load requests so far
    nZoom,          \* zoom_in / zoom_out calls so far
    trip,           \* the current run of zoom_in calls followed by zoom_out calls
    \* -- get_disp_image_scaled called directly
    ret,            \* what the last get_disp_image_scaled call returned
    op,             \* which branch the last cache operation took
    evicted,        \* the key popped by the last cache operation, or NoKey
    lastKey,        \* the key of the last get_disp_image_scaled call
    insOrder,       \* history: the cached [key, bmp] by time of insertion
    touchOrder,     \* history: the cached keys by time of last insert or hit
    hitKeys         \* history: the cached keys hit since their insertion

callVars == <<ret, op, evicted, lastKey, insOrder, touchOrder, hitKeys>>

appVars == <<disp_cache, zoom, pan_x, pan_y, split_pos, mode, toggle_idx,
             im1_orig, im2_orig, im1_raw, im2_raw, im_diff, im_diff_key,
             im_diff_key2, loading, status, current_psnr, in_progress,
             refresh_after_id, folder_mode, folder1_set, folder2_set,
             total_images, current_image_index, load_threads, psnr_threads,
             nextId, nLoads, raised, redraws,
             toggle_pressed, dragging, slider_drag, last_drag_x, last_drag_y,
             timers, nextTimer, im1_path, im2_path>>

envVars == <<cw, ch, main_queue, ctx, act, nZoom, trip, press, probe, canvas,
            pixels>>

\* the application state but the cache
OtherAppVars == <<zoom, pan_x, pan_y, split_pos, mode, toggle_idx,
             im1_orig, im2_orig, im1_raw, im2_raw, im_diff, im_diff_key,
             im_diff_key2, loading, status, current_psnr, in_progress,
             refresh_after_id, folder_mode, folder1_set, folder2_set,
             total_images, current_image_index, load_threads, psnr_threads,
             nextId, nLoads, raised, redraws,
             toggle_pressed, dragging, slider_drag, last_drag_x, last_drag_y,
             timers, nextTimer, im1_path, im2_path>>

vars == <<appVars, envVars, callVars>>

\* an image that is not loaded (Python None); a loaded image has id > 0
NoneIm == [id |-> 0, w |-> 0, h |-> 0]

\* "no bitmap" (Python None)
NoneBmp == [src |-> 0, zoom |-> Rat(1, 1), nw |-> 0, nh |-> 0]

NoKey == <<0, 0>>

\* _refresh_after_id = None; the ids of root.after are "after#1", "after#2", ...
NoTimer == 0

\* button 1 is up
NoPress == [down |-> FALSE, idx |-> 0]

\* the pixels are left out
NoPixels == [a |-> <<>>, b |-> <<>>]

\* no redraw has been inspected
NoCanvas == [tag |-> "none"]

\* no point has been mapped
NoProbe == [ix |-> 0, iy |-> 0, cx |-> 0, cy |-> 0, rx |-> 0, ry |-> 0,
            nw |-> 0, nh |-> 0]

\* "y = e; F(y)": e is evaluated once and named in what follows
Bind(e, F(_)) == F(e)

Max(a, b) == IF a >= b THEN a ELSE b

\* ------------------------------------------------------------------------
\* image_utils.get_disp_image_scaled
\* ------------------------------------------------------------------------

CacheKeys(cache) == {cache[i].key : i \in 1..Len(cache)}

CacheIndex(cache, key) == CHOOSE i \in 1..Len(cache) : cache[i].key = key

SeqRemoveAt(s, i) == SubSeq(s, 1, i - 1) \o SubSeq(s, i + 1, Len(s))

\* mutant: the hit leaves the entry where it is
move_to_end_noop(cache, key) == cache

\* OrderedDict.move_to_end(key)
move_to_end(cache, key) ==
    LET i == CacheIndex(cache, key)
    IN  Append(SeqRemoveAt(cache, i), cache[i])

\* mutant: nothing is popped
popitem_none(cache) == cache

\* mutant: popitem(last=True), the newest entry is popped
popitem_last(cache) == SubSeq(cache, 1, Len(cache) - 1)

\* OrderedDict.popitem(last=False)
popitem_first(cache) == Tail(cache)

\* mutant: the sizes are rounded up
resize_for_zoom_up(im, z) ==
    [src |-> im.id, zoom |-> z,
     nw |-> Max(1, RatFloorMul(im.w, z) + 1),
     nh |-> Max(1, RatFloorMul(im.h, z) + 1)]

\* im.resize((nw, nh), LANCZOS) with nw = max(1, int(im.width * z))
resize_for_zoom(im, z) ==
    [src |-> im.id, zoom |-> z,
     nw |-> Max(1, RatFloorMul(im.w, z)),
     nh |-> Max(1, RatFloorMul(im.h, z))]

cache_key(im, z) == <<im.id, Round6(z)>>

\* [cache |-> the cache afterwards, ret |-> the returned bitmap,
\*  op |-> the branch taken, evicted |-> the key popped].  resize_ok = FALSE
\* is im.resize raising (caught by the except clause).
get_disp_image_scaled(im, z, cache, max_cache_size, resize_ok) ==
    IF im = NoneIm
    THEN [cache |-> cache, ret |-> NoneBmp, op |-> "none", evicted |-> NoKey]
    ELSE Bind(cache_key(im, z), LAMBDA key :
        IF key \in CacheKeys(cache)
        THEN [cache |-> move_to_end(cache, key),
              ret |-> cache[CacheIndex(cache, key)].bmp,
              op |-> "hit", evicted |-> NoKey]
        ELSE IF ~resize_ok
        THEN [cache |-> cache, ret |-> NoneBmp, op |-> "fail", evicted |-> NoKey]
        ELSE Bind(resize_for_zoom(im, z), LAMBDA disp :
             Bind(IF Len(cache) >= max_cache_size
                  THEN popitem_first(cache) ELSE cache, LAMBDA c1 :
             Bind(CacheKeys(cache) \ CacheKeys(c1), LAMBDA gone :
                 [cache |-> Append(c1, [key |-> key, bmp |-> disp]),
                  ret |-> disp, op |-> "miss",
                  evicted |-> IF gone = {} THEN NoKey
                              ELSE CHOOSE k \in gone : TRUE]))))

\* ------------------------------------------------------------------------
\* Program constants, and the files and window sizes of the environment
\* ------------------------------------------------------------------------

ZOOM_MIN == Rat(1, 100)
ZOOM_MAX == Rat(64, 1)
ZOOM_STEP == Rat(5, 4)
ZOOM_1X == Rat(1, 1)
\* the literal 0.01 of fit_win
FIT_MIN == Rat(1, 100)
UNIFORM_SIZE == <<512, 512>>

RatMul(a, b) == RatNorm(a.n * b.n, a.d * b.d, a.e + b.e)
RatDiv(a, b) == RatNorm(a.n * b.d, a.d * b.n, a.e - b.e)

\* pan_x, pan_y and split_pos are fractions of the canvas: [n, d] stands for n/d
PAN_ZERO == [n |-> 0, d |-> 1]
SPLIT_HALF == [n |-> 1, d |-> 2]

Modes == {"side_by_side", "toggle", "slider", "magnifier", "difference"}

Abs(x) == IF x >= 0 THEN x ELSE -x

\* int(n / d) for d > 0: Python's int() truncates towards zero
Trunc(n, d) == IF n >= 0 THEN n \div d ELSE -((-n) \div d)

\* the fraction n/d (d > 0) in lowest terms
FracNorm(n, d) == [n |-> n \div Gcd(Abs(n), d), d |-> d \div Gcd(Abs(n), d)]

FracAdd(a, b) == FracNorm(a.n * b.d + b.n * a.d, a.d * b.d)

FracLe(a, b) == a.n * b.d <= b.n * a.d

\* mutant: the value is not clamped
FracClamp_none(x, lo, hi) == x

\* max(lo, min(hi, x))
FracClamp(x, lo, hi) ==
    IF FracLe(hi, x) THEN hi ELSE IF FracLe(x, lo) THEN lo ELSE x

RECURSIVE Pow(_, _)
Pow(b, k) == IF k = 0 THEN 1 ELSE b * Pow(b, k - 1)

\* the zoom z = n/d * (5/4)^e as a plain fraction
RatToFrac(z) ==
    IF z.e >= 0 THEN FracNorm(z.n * Pow(5, z.e), z.d * Pow(4, z.e))
    ELSE FracNorm(z.n * Pow(4, -z.e), z.d * Pow(5, -z.e))

\* the literals -10 and 10 of on_b1_move, 0.0 and 1.0 of the split position
PAN_MIN == [n |-> -10, d |-> 1]
PAN_MAX == [n |-> 10, d |-> 1]
SPLIT_MIN == [n |-> 0, d |-> 1]
SPLIT_MAX == [n |-> 1, d |-> 1]

\* the image files the user can pick are "small", "large" and "bad", which
\* cannot be decoded; the size of a decoded file
FileSize(f) == IF f = "small" THEN <<10, 5>> ELSE <<2000, 1000>>

\* the matched pairs of the two folders, by index
FolderPairs == << <<"small", "large">>, <<"large", "bad">> >>

\* the value of current_psnr: None, 0.0 (what calculate_psnr_sync returns
\* when it fails) or the PSNR of the two image objects a and b
PsnrNone == [k |-> "none", a |-> 0, b |-> 0]
PsnrZero == [k |-> "zero", a |-> 0, b |-> 0]
PsnrOf(a, b) == [k |-> "value", a |-> a.id, b |-> b.id]

SameSize(a, b) == a.w = b.w /\ a.h = b.h

\* image_utils.load_single_image: a new image object, or None
load_single_image(f, id) ==
    IF f = "bad" THEN NoneIm
    ELSE [id |-> id, w |-> FileSize(f)[1], h |-> FileSize(f)[2]]

\* image_utils.load_image_pair: both resized to uniform_size when both decode
load_image_pair(f1, f2, uniform_size, id) ==
    LET a == load_single_image(f1, id)
        b == load_single_image(f2, id + 1)
    IN  IF a # NoneIm /\ b # NoneIm
        THEN <<[id |-> id, w |-> uniform_size[1], h |-> uniform_size[2]],
               [id |-> id + 1, w |-> uniform_size[1], h |-> uniform_size[2]]>>
        ELSE <<a, b>>

\* mutant: the images are returned as they are
align_images_to_same_size_asis(a, b, id) == <<a, b>>

\* image_utils.align_images_to_same_size: <<im1, im2>>, an image that has not
\* the target size is replaced by a new target-sized image object
align_images_to_same_size(a, b, id) ==
    IF a = NoneIm \/ b = NoneIm \/ SameSize(a, b) THEN <<a, b>>
    ELSE LET tw == Max(a.w, b.w)
             th == Max(a.h, b.h)
             T(i) == [id |-> i, w |-> tw, h |-> th]
         IN  <<IF a.w # tw \/ a.h # th THEN T(id) ELSE a,
               IF b.w # tw \/ b.h # th THEN T(id + 1) ELSE b>>

\* image_utils.calculate_psnr_sync: 0.0 when an image is missing (the
\* exception is caught) or the sizes differ
calculate_psnr_sync(a, b) ==
    IF a = NoneIm \/ b = NoneIm \/ ~SameSize(a, b) THEN PsnrZero ELSE PsnrOf(a, b)

\* ------------------------------------------------------------------------
\* The handlers of the interactive context, as functions of the state s
\* (s.exc: an exception is propagating; s.redraws: redraws completed)
\* ------------------------------------------------------------------------

\* main.py has no "import traceback": the except clause of _do_refresh
\* raises NameError at traceback.print_exc()
traceback_imported == FALSE

Cur ==
    [cache |-> disp_cache, zoom |-> zoom, pan_x |-> pan_x, pan_y |-> pan_y,
     split_pos |-> split_pos, mode |-> mode, toggle_idx |-> toggle_idx,
     im1_orig |-> im1_orig, im2_orig |-> im2_orig,
     im1_raw |-> im1_raw, im2_raw |-> im2_raw,
     im_diff |-> im_diff, im_diff_key |-> im_diff_key, im_diff_key2 |-> im_diff_key2,
     loading |-> loading, status |-> status,
     current_psnr |-> current_psnr, in_progress |-> in_progress,
     refresh_after_id |-> refresh_after_id,
     folder_mode |-> folder_mode, folder1_set |-> folder1_set,
     folder2_set |-> folder2_set, total_images |-> total_images,
     current_image_index |-> current_image_index,
     load_threads |-> load_threads, psnr_threads |-> psnr_threads,
     nextId |-> nextId, nLoads |-> nLoads, cw |-> cw, ch |-> ch,
     toggle_pressed |-> toggle_pressed, dragging |-> dragging,
     slider_drag |-> slider_drag,
     last_drag_x |-> last_drag_x, last_drag_y |-> last_drag_y,
     timers |-> timers, nextTimer |-> nextTimer,
     im1_path |-> im1_path, im2_path |-> im2_path,
     exc |-> FALSE, redraws |-> 0, resize_ok |-> TRUE]

\* run F unless an exception is propagating
Then(s, F(_)) == IF s.exc THEN s ELSE F(s)

\* try: ... except Exception: pass
Swallow(s) == [s EXCEPT !.exc = FALSE]

\* view_controller.get_disp_image
get_disp_image(s, im) ==
    get_disp_image_scaled(im, s.zoom, s.cache, MaxCacheSize, s.resize_ok)

\* the state after view_controller.image_display_params_for_canvas(im, canvas)
image_display_params_for_canvas(s, im) ==
    [s EXCEPT !.cache = get_disp_image(s, im).cache]

side_by_side_draw(s) ==
    image_display_params_for_canvas(
        image_display_params_for_canvas(s, s.im1_orig), s.im2_orig)

toggle_draw(s) ==
    image_display_params_for_canvas(
        s, IF s.toggle_idx = 1 THEN s.im1_orig ELSE s.im2_orig)

slider_draw(s) ==
    IF s.cw <= 1 \/ s.ch <= 1 THEN s
    ELSE Bind(image_display_params_for_canvas(s, s.im1_orig), LAMBDA s1 :
         Bind(get_disp_image(s1, s.im2_orig), LAMBDA d2 :
         Bind([s1 EXCEPT !.cache = d2.cache], LAMBDA s2 :
             IF d2.ret # NoneBmp
             THEN image_display_params_for_canvas(s2, s.im2_orig)
             ELSE s2)))

\* _create_magnified_region reads app.im1_orig.width outside its try block:
\* AttributeError when image 1 is not loaded
magnifier_draw(s) ==
    IF s.cw <= 1 \/ s.ch <= 1 THEN s
    ELSE Bind(image_display_params_for_canvas(s, s.im1_orig), LAMBDA s1 :
         Bind(image_display_params_for_canvas(s1, s.im1_orig), LAMBDA s2 :
             IF s.im1_orig = NoneIm THEN [s2 EXCEPT !.exc = TRUE] ELSE s2))

needs_recompute(s) ==
    \/ s.im_diff = NoneIm
    \/ s.im1_orig.id # s.im_diff_key
    \/ s.im2_orig.id # s.im_diff_key2

difference_draw(s) ==
    IF s.im1_orig = NoneIm \/ s.im2_orig = NoneIm THEN s
    ELSE Bind(IF needs_recompute(s)
              THEN [s EXCEPT !.im_diff = [id |-> s.nextId, w |-> s.im1_orig.w,
                                          h |-> s.im1_orig.h],
                             !.im_diff_key = s.im1_orig.id,
                             !.im_diff_key2 = s.im2_orig.id,
                             !.nextId = @ + 1]
              ELSE s, LAMBDA s1 :
             image_display_params_for_canvas(s1, s1.im_diff))

draw(s) ==
    CASE s.mode = "side_by_side" -> side_by_side_draw(s)
      [] s.mode = "toggle"       -> toggle_draw(s)
      [] s.mode = "slider"       -> slider_draw(s)
      [] s.mode = "magnifier"    -> magnifier_draw(s)
      [] s.mode = "difference"   -> difference_draw(s)

\* SRCompareApp._do_refresh
do_refresh(s) ==
    Bind(draw(s), LAMBDA d :
        IF ~d.exc THEN [d EXCEPT !.redraws = @ + 1]
        ELSE IF traceback_imported
        THEN [d EXCEPT !.exc = FALSE, !.status = "draw_error"]
        ELSE d)

\* SRCompareApp.schedule_refresh
schedule_refresh(s, immediate) ==
    Bind(IF s.refresh_after_id # NoTimer
         THEN [s EXCEPT !.timers = @ \ {s.refresh_after_id},
                        !.refresh_after_id = NoTimer]
         ELSE s, LAMBDA s1 :
        IF immediate THEN do_refresh(s1)
        ELSE [s1 EXCEPT !.refresh_after_id = s1.nextTimer,
                        !.timers = @ \cup {s1.nextTimer},
                        !.nextTimer = @ + 1])

refresh_now(s) == schedule_refresh(s, TRUE)

\* mutant: fit_win with max() for min(), the image fills the viewport
fit_win_fill(s) ==
    Bind(IF s.im1_orig # NoneIm THEN s.im1_orig ELSE s.im2_orig, LAMBDA im :
        IF s.cw <= 1 \/ s.ch <= 1 \/ im = NoneIm THEN s
        ELSE refresh_now([s EXCEPT
                 !.zoom = RatMax(FIT_MIN, RatMax(Rat(s.cw, im.w), Rat(s.ch, im.h))),
                 !.pan_x = PAN_ZERO, !.pan_y = PAN_ZERO]))

\* ViewController.fit_win
fit_win(s) ==
    Bind(IF s.im1_orig # NoneIm THEN s.im1_orig ELSE s.im2_orig, LAMBDA im :
        IF s.cw <= 1 \/ s.ch <= 1 \/ im = NoneIm THEN s
        ELSE refresh_now([s EXCEPT
                 !.zoom = RatMax(FIT_MIN, RatMin(Rat(s.cw, im.w), Rat(s.ch, im.h))),
                 !.pan_x = PAN_ZERO, !.pan_y = PAN_ZERO]))

\* ViewController.zoom_in
zoom_in(s) ==
    refresh_now([s EXCEPT !.zoom = RatMin(RatMul(@, ZOOM_STEP), ZOOM_MAX)])

\* mutant: zoom_out with min() for max()
zoom_out_min(s) ==
    refresh_now([s EXCEPT !.zoom = RatMin(RatDiv(@, ZOOM_STEP), ZOOM_MIN)])

\* ViewController.zoom_out
zoom_out(s) ==
    refresh_now([s EXCEPT !.zoom = RatMax(RatDiv(@, ZOOM_STEP), ZOOM_MIN)])

\* ViewController.zoom_1x
zoom_1x(s) == refresh_now([s EXCEPT !.zoom = ZOOM_1X])

\* SRCompareApp.toggle
toggle(s) ==
    IF s.mode = "toggle" /\ s.im1_orig # NoneIm /\ s.im2_orig # NoneIm
    THEN refresh_now([s EXCEPT !.toggle_idx = 3 - @])
    ELSE s

\* mutant: canvas_to_image scaling by the bitmap's size, not the image's
canvas_to_image_bitmap(s, cx, cy) ==
    Bind(get_disp_image(s, s.im1_orig), LAMBDA r :
        IF r.ret = NoneBmp THEN [cache |-> r.cache, ix |-> 0, iy |-> 0]
        ELSE Bind(Trunc((s.cw - r.ret.nw) * s.pan_x.d + 2 * s.pan_x.n * s.cw,
                        2 * s.pan_x.d), LAMBDA left :
             Bind(Trunc((s.ch - r.ret.nh) * s.pan_y.d + 2 * s.pan_y.n * s.ch,
                        2 * s.pan_y.d), LAMBDA top :
                 [cache |-> r.cache,
                  ix |-> Trunc((cx - left) * r.ret.nw, Max(1, r.ret.nw)),
                  iy |-> Trunc((cy - top) * r.ret.nh, Max(1, r.ret.nh))])))

\* ViewController.canvas_to_image(cx, cy): the image pixel under a canvas
\* point, and the cache after the get_disp_image call it makes
canvas_to_image(s, cx, cy) ==
    Bind(get_disp_image(s, s.im1_orig), LAMBDA r :
        IF r.ret = NoneBmp THEN [cache |-> r.cache, ix |-> 0, iy |-> 0]
        ELSE Bind(Trunc((s.cw - r.ret.nw) * s.pan_x.d + 2 * s.pan_x.n * s.cw,
                        2 * s.pan_x.d), LAMBDA left :
             Bind(Trunc((s.ch - r.ret.nh) * s.pan_y.d + 2 * s.pan_y.n * s.ch,
                        2 * s.pan_y.d), LAMBDA top :
                 [cache |-> r.cache,
                  ix |-> Trunc((cx - left) * s.im1_orig.w, Max(1, r.ret.nw)),
                  iy |-> Trunc((cy - top) * s.im1_orig.h, Max(1, r.ret.nh))])))

\* the canvas point at which the image point (ix, iy) is drawn, as
\* SliderStrategy.draw places the split line of split_pos = ix / width:
\* left + int(disp.width * split_pos); the same down the other axis
image_to_canvas(s, ix, iy) ==
    Bind(get_disp_image(s, s.im1_orig), LAMBDA r :
        IF r.ret = NoneBmp THEN [cache |-> r.cache, cx |-> 0, cy |-> 0, nw |-> 0, nh |-> 0]
        ELSE Bind(Trunc((s.cw - r.ret.nw) * s.pan_x.d + 2 * s.pan_x.n * s.cw,
                        2 * s.pan_x.d), LAMBDA left :
             Bind(Trunc((s.ch - r.ret.nh) * s.pan_y.d + 2 * s.pan_y.n * s.ch,
                        2 * s.pan_y.d), LAMBDA top :
                 [cache |-> r.cache,
                  cx |-> left + Trunc(r.ret.nw * ix, Max(1, s.im1_orig.w)),
                  cy |-> top + Trunc(r.ret.nh * iy, Max(1, s.im1_orig.h)),
                  nw |-> r.ret.nw, nh |-> r.ret.nh])))

\* abs(ix - split_ix) <= max(3, 6 / max(0.5, zoom)), for diff = abs(ix - split_ix)
within_tol(diff, z) ==
    \/ diff <= 3
    \/ IF RatLe(z, Rat(1, 2)) THEN diff <= 12
       ELSE RatLe(RatMul(Rat(diff, 1), z), Rat(6, 1))

\* mutant: every press starts a pan drag
on_b1_down_pan(s, x, y) ==
    [s EXCEPT !.dragging = TRUE, !.last_drag_x = x, !.last_drag_y = y]

\* UIManager.on_b1_down at the canvas point (x, y)
on_b1_down(s, x, y) ==
    Bind(IF s.mode = "slider" /\ s.im1_orig # NoneIm
         THEN canvas_to_image(s, x, y)
         ELSE [cache |-> s.cache, ix |-> 0, iy |-> 0], LAMBDA c :
    Bind([s EXCEPT !.cache = c.cache], LAMBDA s1 :
        IF /\ s.mode = "slider" /\ s.im1_orig # NoneIm
           /\ within_tol(Abs(c.ix - Trunc(s.im1_orig.w * s.split_pos.n,
                                          s.split_pos.d)), s.zoom)
        THEN [s1 EXCEPT !.slider_drag = TRUE]
        ELSE IF s.mode = "toggle"
        THEN IF s.im1_orig # NoneIm /\ s.im2_orig # NoneIm
             THEN refresh_now([s1 EXCEPT !.toggle_idx = 3 - @,
                                         !.toggle_pressed = TRUE])
             ELSE s1
        ELSE [s1 EXCEPT !.dragging = TRUE,
                        !.last_drag_x = x, !.last_drag_y = y]))

\* dx / max(1, zoom * extent), extent being the canvas width or height
pan_step(dx, z, extent) ==
    IF RatLe(z, Rat(1, extent)) THEN [n |-> dx, d |-> 1]
    ELSE FracNorm(dx * RatToFrac(z).d, RatToFrac(z).n * extent)

\* UIManager.on_b1_move to the canvas point (x, y)
on_b1_move(s, x, y) ==
    IF s.dragging /\ ~s.slider_drag
    THEN Bind([s EXCEPT !.last_drag_x = x, !.last_drag_y = y], LAMBDA s1 :
             refresh_now(
                 IF s.cw > 0 /\ s.ch > 0
                 THEN [s1 EXCEPT
                          !.pan_x = FracClamp(
                              FracAdd(@, pan_step(x - s.last_drag_x, s.zoom, s.cw)),
                              PAN_MIN, PAN_MAX),
                          !.pan_y = FracClamp(
                              FracAdd(@, pan_step(y - s.last_drag_y, s.zoom, s.ch)),
                              PAN_MIN, PAN_MAX)]
                 ELSE s1))
    ELSE IF s.slider_drag
    THEN IF s.im1_orig = NoneIm THEN s
         ELSE Bind(canvas_to_image(s, x, y), LAMBDA c :
                  refresh_now([s EXCEPT
                      !.cache = c.cache,
                      !.split_pos = FracClamp(FracNorm(c.ix, Max(1, s.im1_orig.w)),
                                              SPLIT_MIN, SPLIT_MAX)]))
    ELSE s

\* UIManager.on_b1_up
on_b1_up(s) ==
    Bind([s EXCEPT !.dragging = FALSE, !.slider_drag = FALSE], LAMBDA s1 :
        IF s1.toggle_pressed /\ s1.mode = "toggle"
        THEN refresh_now([s1 EXCEPT !.toggle_idx = 3 - @,
                                    !.toggle_pressed = FALSE])
        ELSE s1)

MAGNIFIER_CROP_SIZE == 100
MAGNIFIER_ZOOM == 2

Min(a, b) == IF a <= b THEN a ELSE b

\* _create_magnified_region returned None
NoRegion == [w |-> 0, h |-> 0]

\* MagnifierStrategy._create_magnified_region(ix, iy): the size of the
\* picture made of the two enlarged crops side by side, or None (the crop is
\* empty, or image 2 is missing and the exception is caught)
create_magnified_region(im1, im2, ix, iy) ==
    LET half     == MAGNIFIER_CROP_SIZE \div 2
        left_i   == Max(0, ix - half)
        top_i    == Max(0, iy - half)
        right_i  == Min(im1.w, ix + half)
        bottom_i == Min(im1.h, iy + half)
        ds_w     == (right_i - left_i) * MAGNIFIER_ZOOM
        ds_h     == (bottom_i - top_i) * MAGNIFIER_ZOOM
    IN  IF left_i >= right_i \/ top_i >= bottom_i THEN NoRegion
        ELSE IF im2 = NoneIm THEN NoRegion
        ELSE [w |-> ds_w * 2, h |-> ds_h]

\* MagnifierStrategy.draw: where the picture r is put for the pointer
\* (mx, my) in a canvas of vw x vh
place_overlay(mx, my, r, vw, vh) ==
    [tag |-> "magnifier",
     x |-> Min(Max(0, mx + 20), vw - r.w),
     y |-> Min(Max(0, my + 20), vh - r.h),
     w |-> r.w, h |-> r.h]

\* MagnifierStrategy.draw with the pointer at (mx, my): the canvas item
\* tagged "magnifier", if one is created (both images are loaded)
magnifier_overlay(s, mx, my) ==
    IF s.cw <= 1 \/ s.ch <= 1 THEN NoCanvas
    ELSE Bind(canvas_to_image(s, mx, my), LAMBDA c :
         Bind(create_magnified_region(s.im1_orig, s.im2_orig, c.ix, c.iy), LAMBDA r :
             IF r = NoRegion THEN NoCanvas
             ELSE place_overlay(mx, my, r, s.cw, s.ch)))

\* image_display_params_for_canvas: the left (top) edge of a bitmap of
\* width (height) dw in a canvas of extent vw, int((vw - dw) / 2 + pan * vw)
display_left(vw, dw, pan) == Trunc((vw - dw) * pan.d + 2 * pan.n * vw, 2 * pan.d)

\* mutant: image 2 is pasted without the mask
compose_slider_nomask(b1, b2, vw, pan, split) ==
    [tag |-> "slider", has1 |-> b1 # NoneBmp,
     left1 |-> display_left(vw, b1.nw, pan), w1 |-> b1.nw,
     has2 |-> b2 # NoneBmp,
     from2 |-> display_left(vw, b2.nw, pan),
     to2 |-> display_left(vw, b2.nw, pan) + b2.nw,
     line |-> b2 # NoneBmp,
     line_x |-> display_left(vw, b1.nw, pan) + Trunc(b1.nw * split.n, split.d)]

\* SliderStrategy.draw, the picture composed from the bitmaps b1 and b2:
\* image 1 pasted at left1, image 2 pasted through a mask that is opaque
\* from column px on (canvas columns from2 .. to2 - 1), then the split line
compose_slider(b1, b2, vw, pan, split) ==
    LET left1   == IF b1 = NoneBmp THEN 0 ELSE display_left(vw, b1.nw, pan)
        left2   == display_left(vw, b2.nw, pan)
        split_x == IF b1 # NoneBmp THEN left1 + Trunc(b1.nw * split.n, split.d)
                   ELSE Trunc(vw * split.n, split.d)
        px      == Max(0, Min(b2.nw, split_x - left2))
    IN  [tag |-> "slider", has1 |-> b1 # NoneBmp, left1 |-> left1, w1 |-> b1.nw,
         has2 |-> b2 # NoneBmp /\ px < b2.nw,
         from2 |-> left2 + px, to2 |-> left2 + b2.nw,
         line |-> b2 # NoneBmp, line_x |-> split_x]

\* SliderStrategy.draw: what it puts on the canvas
slider_composite(s) ==
    IF s.cw <= 1 \/ s.ch <= 1 THEN NoCanvas
    ELSE Bind(get_disp_image(s, s.im1_orig), LAMBDA d1 :
         Bind(get_disp_image([s EXCEPT !.cache = d1.cache], s.im2_orig), LAMBDA d2 :
             compose_slider(d1.ret, d2.ret, s.cw, s.pan_x, s.split_pos)))

\* mutant: the subtraction is done in uint8 and wraps around
channel_diff_uint8(a, b) == (a - b) % 256

\* np.abs(im1_array - im2_array) for one channel value of each image, the
\* arrays being int16
channel_diff(a, b) == Abs(a - b)

\* the largest of the numbers in the non-empty set S
SetMax(S) == CHOOSE m \in S : \A x \in S : x <= m

\* np.max(diff_array, axis=2): per pixel, the largest difference of a channel
diff_gray(A, B) ==
    [i \in 1..Len(A) |-> SetMax({channel_diff(A[i][c], B[i][c]) : c \in 1..3})]

\* mutant: the differences are not normalised
compute_difference_raw(A, B) == diff_gray(A, B)

\* DifferenceStrategy._compute_difference for two images of the same size
\* with the pixels A and B: the grey value of each pixel of the result
\* ((diff_gray * 255.0 / max_diff).astype(np.uint8) truncates)
compute_difference(A, B) ==
    LET g        == diff_gray(A, B)
        max_diff == SetMax({g[i] : i \in 1..Len(g)})
    IN  IF max_diff > 0
        THEN [i \in 1..Len(g) |-> ((g[i] * 255) \div max_diff) % 256]
        ELSE [i \in 1..Len(g) |-> 0]

\* UIManager.on_move: in magnifier mode with both images loaded, 1/30 s
\* after the last such redraw, the canvas is redrawn at once
on_move(s) ==
    IF s.mode = "magnifier" /\ s.im1_orig # NoneIm /\ s.im2_orig # NoneIm
    THEN refresh_now(s) ELSE s

\* UIManager._update_status_with_psnr: the mode hint, with the PSNR if any
update_status_with_psnr(s) ==
    [s EXCEPT !.status = IF s.current_psnr # PsnrNone THEN "hint_psnr" ELSE "hint"]

reset_view(s) ==
    [s EXCEPT !.zoom = ZOOM_1X, !.pan_x = PAN_ZERO, !.pan_y = PAN_ZERO,
              !.split_pos = SPLIT_HALF]

\* UIManager.on_mode_change, new_mode being the mode selected in mode_var
on_mode_change(s, new_mode) ==
    Then(refresh_now(Swallow(fit_win(reset_view([s EXCEPT !.mode = new_mode])))),
         update_status_with_psnr)

\* UIManager.set_loading
set_loading(s, flag, text) == [s EXCEPT !.loading = flag, !.status = text]

psnr_precondition(s) ==
    s.im1_orig # NoneIm /\ s.im2_orig # NoneIm /\ SameSize(s.im1_orig, s.im2_orig)

\* mutant: start_calculation without the in-progress test
start_calculation_always(s) ==
    IF ~psnr_precondition(s)
    THEN update_status_with_psnr([s EXCEPT !.current_psnr = PsnrNone])
    ELSE [s EXCEPT !.in_progress = TRUE,
                   !.psnr_threads = Append(@, [pc |-> "start", a |-> NoneIm])]

\* mutant: start_calculation without the test of the two images
start_calculation_unchecked(s) ==
    IF s.in_progress THEN s
    ELSE [s EXCEPT !.in_progress = TRUE,
                   !.psnr_threads = Append(@, [pc |-> "start", a |-> NoneIm])]

\* PSNRCalculator.start_calculation
start_calculation(s) ==
    IF ~psnr_precondition(s)
    THEN update_status_with_psnr([s EXCEPT !.current_psnr = PsnrNone])
    ELSE IF s.in_progress THEN s
    ELSE [s EXCEPT !.in_progress = TRUE,
                   !.psnr_threads = Append(@, [pc |-> "start", a |-> NoneIm])]

\* mutant: the callback leaves the in-progress flag set
on_psnr_calculated_keep(s, psnr_value) ==
    update_status_with_psnr([s EXCEPT !.current_psnr = psnr_value])

\* PSNRCalculator._on_psnr_calculated
on_psnr_calculated(s, psnr_value) ==
    update_status_with_psnr([s EXCEPT !.current_psnr = psnr_value,
                                      !.in_progress = FALSE])

NextFreeId(s, a, b) == Max(s.nextId, Max(a.id, b.id) + 1)

\* mutant: finish() of _load_image_thread without _disp_cache.clear()
finish_single_keep_cache(s, slot, im) ==
    Bind(IF slot = 1 THEN [s EXCEPT !.im1_raw = im, !.im1_orig = im]
                     ELSE [s EXCEPT !.im2_raw = im, !.im2_orig = im], LAMBDA s1 :
    Bind(align_images_to_same_size(s1.im1_raw, s1.im2_raw, s1.nextId), LAMBDA al :
    Bind(IF /\ s1.im1_orig # NoneIm /\ s1.im2_orig # NoneIm
            /\ ~SameSize(s1.im1_orig, s1.im2_orig)
         THEN [s1 EXCEPT !.im1_orig = al[1], !.im2_orig = al[2],
                         !.nextId = NextFreeId(s1, al[1], al[2])]
         ELSE s1, LAMBDA s2 :
    Bind(Swallow(fit_win(reset_view(
             set_loading([s2 EXCEPT !.im_diff = NoneIm], FALSE, "")))), LAMBDA s4 :
        Then(Then(on_mode_change(s4, s4.mode), refresh_now), LAMBDA t :
            IF psnr_precondition(t) THEN start_calculation(t)
            ELSE update_status_with_psnr([t EXCEPT !.current_psnr = PsnrNone]))))))

\* finish() of FileManager._load_image_thread
finish_single(s, slot, im) ==
    Bind(IF slot = 1 THEN [s EXCEPT !.im1_raw = im, !.im1_orig = im]
                     ELSE [s EXCEPT !.im2_raw = im, !.im2_orig = im], LAMBDA s1 :
    Bind(align_images_to_same_size(s1.im1_raw, s1.im2_raw, s1.nextId), LAMBDA al :
    Bind(IF /\ s1.im1_orig # NoneIm /\ s1.im2_orig # NoneIm
            /\ ~SameSize(s1.im1_orig, s1.im2_orig)
         THEN [s1 EXCEPT !.im1_orig = al[1], !.im2_orig = al[2],
                         !.nextId = NextFreeId(s1, al[1], al[2])]
         ELSE s1, LAMBDA s2 :
    Bind(Swallow(fit_win(reset_view(
             set_loading([s2 EXCEPT !.cache = <<>>, !.im_diff = NoneIm],
                         FALSE, "")))), LAMBDA s4 :
        Then(Then(on_mode_change(s4, s4.mode), refresh_now), LAMBDA t :
            IF psnr_precondition(t) THEN start_calculation(t)
            ELSE update_status_with_psnr([t EXCEPT !.current_psnr = PsnrNone]))))))

\* finish() of FileManager._load_image_pair_thread
finish_pair(s, a, b, f1, f2) ==
    Bind(set_loading(Swallow(fit_win(reset_view(
             [s EXCEPT !.im1_orig = a, !.im2_orig = b,
                       !.im1_raw = a, !.im2_raw = b,
                       !.im1_path = f1, !.im2_path = f2,
                       !.cache = <<>>, !.im_diff = NoneIm]))), FALSE, ""), LAMBDA s2 :
        Then(Then(on_mode_change(s2, s2.mode), refresh_now), LAMBDA t :
            IF psnr_precondition(t) THEN start_calculation(t) ELSE t))

\* FileManager.load_current_image_pair: starts a load thread
load_current_image_pair(s) ==
    IF ~(s.folder_mode /\ s.total_images > 0) THEN s
    ELSE Bind(IF s.current_image_index >= s.total_images
              THEN 0 ELSE s.current_image_index, LAMBDA i :
             [s EXCEPT !.current_image_index = i,
                       !.load_threads = Append(@,
                           [kind |-> "pair", slot |-> 0, f1 |-> FolderPairs[i + 1][1],
                            f2 |-> FolderPairs[i + 1][2], pc |-> "start"]),
                       !.nLoads = @ + 1])

\* FileManager.load_folder1 / load_folder2
load_folder(s, k) ==
    Bind(IF k = 1 THEN [s EXCEPT !.folder1_set = TRUE]
                  ELSE [s EXCEPT !.folder2_set = TRUE], LAMBDA s1 :
        IF s1.folder1_set /\ s1.folder2_set
        THEN load_current_image_pair(
                 [s1 EXCEPT !.total_images = Len(FolderPairs),
                            !.current_image_index = 0])
        ELSE s1)

\* FileManager.prev_image (step = -1) / next_image (step = 1)
step_image(s, step) ==
    IF s.folder_mode /\ s.total_images > 0
    THEN load_current_image_pair(
             [s EXCEPT !.current_image_index = (@ + step) % s.total_images])
    ELSE s

\* UIManager.switch_compare_mode
switch_compare_mode(s, folder) ==
    IF folder
    THEN Bind([s EXCEPT !.folder_mode = TRUE], LAMBDA s1 :
             IF s.folder1_set /\ s.folder2_set /\ s.total_images > 0
             THEN load_current_image_pair(s1) ELSE s1)
    ELSE [s EXCEPT !.folder_mode = FALSE]

\* FileManager.load_im1 / load_im2 with the file f picked in the dialog
load_im(s, slot, f) ==
    [s EXCEPT !.im1_path = IF slot = 1 THEN f ELSE @,
              !.im2_path = IF slot = 2 THEN f ELSE @,
              !.load_threads = Append(@, [kind |-> "single", slot |-> slot,
                                          f1 |-> f, f2 |-> f, pc |-> "start"]),
              !.nLoads = @ + 1]

NoTrip == [z0 |-> ZOOM_1X, ins |-> 0, outs |-> 0]

\* SRCompareApp.__init__, before the window is mapped
InitApp ==
    /\ zoom = ZOOM_1X /\ pan_x = PAN_ZERO /\ pan_y = PAN_ZERO
    /\ split_pos = SPLIT_HALF /\ mode = "side_by_side" /\ toggle_idx = 1
    /\ im1_orig = NoneIm /\ im2_orig = NoneIm
    /\ im1_raw = NoneIm /\ im2_raw = NoneIm
    /\ im_diff = NoneIm /\ im_diff_key = 0 /\ im_diff_key2 = 0
    /\ loading = FALSE /\ status = "hint"
    /\ current_psnr = PsnrNone /\ in_progress = FALSE
    /\ refresh_after_id = NoTimer /\ timers = {} /\ nextTimer = 1
    /\ toggle_pressed = FALSE /\ dragging = FALSE /\ slider_drag = FALSE
    /\ last_drag_x = 0 /\ last_drag_y = 0 /\ press = NoPress
    /\ probe = NoProbe /\ canvas = NoCanvas /\ pixels = NoPixels
    /\ im1_path = "" /\ im2_path = ""
    /\ folder_mode = FALSE /\ folder1_set = FALSE /\ folder2_set = FALSE
    /\ total_images = 0 /\ current_image_index = 0
    /\ cw = 1 /\ ch = 1
    /\ load_threads = <<>> /\ psnr_threads = <<>> /\ main_queue = <<>>
    /\ nextId = 1
    /\ ctx = "ui" /\ act = "init" /\ raised = FALSE /\ redraws = 2
    /\ nLoads = 0 /\ nZoom = 0 /\ trip = NoTrip

\* ------------------------------------------------------------------------
\* The cache driven directly: any sequence of get_disp_image_scaled calls
\* and wholesale clears
\* ------------------------------------------------------------------------

CacheImages == {[id |-> 1, w |-> 300, h |-> 200], [id |-> 2, w |-> 3, h |-> 2]}

\* 1/3 and 349525/2^20 = 0.33333302 round to the same key
CacheZooms == {Rat(1, 3), Rat(349525, 1048576), Rat(1, 1)}

SeqWithout(s, k) == SelectSeq(s, LAMBDA x : x # k)

InitCacheVars ==
    /\ disp_cache = <<>>
    /\ ret = NoneBmp
    /\ op = "init"
    /\ evicted = NoKey
    /\ lastKey = NoKey
    /\ insOrder = <<>>
    /\ touchOrder = <<>>
    /\ hitKeys = {}

CacheGet(im, z, resize_ok) ==
    \E r \in {get_disp_image_scaled(im, z, disp_cache, MaxCacheSize, resize_ok)},
       key \in {cache_key(im, z)} :
        /\ disp_cache' = r.cache
        /\ ret' = r.ret
        /\ op' = r.op
        /\ evicted' = r.evicted
        /\ lastKey' = IF im = NoneIm THEN NoKey ELSE key
        /\ insOrder' = IF r.op = "miss"
                       THEN Append(SelectSeq(insOrder, LAMBDA x : x.key # r.evicted),
                                   [key |-> key, bmp |-> r.ret])
                       ELSE insOrder
        /\ touchOrder' = IF r.op \in {"hit", "miss"}
                         THEN Append(SeqWithout(SeqWithout(touchOrder, r.evicted), key), key)
                         ELSE touchOrder
        /\ hitKeys' = IF r.op = "hit" THEN hitKeys \cup {key}
                      ELSE IF r.op = "miss" THEN hitKeys \ {r.evicted}
                      ELSE hitKeys
        /\ UNCHANGED <<OtherAppVars, envVars>>

\* app._disp_cache.clear()
CacheClear ==
    /\ disp_cache' = <<>>
    /\ op' = "clear"
    /\ evicted' = NoKey
    /\ insOrder' = <<>>
    /\ touchOrder' = <<>>
    /\ hitKeys' = {}
    /\ UNCHANGED <<ret, lastKey, OtherAppVars, envVars>>

InitCache == InitApp /\ InitCacheVars

NextCache ==
    \/ \E im \in CacheImages \cup {NoneIm}, z \in CacheZooms, ok \in BOOLEAN :
           CacheGet(im, z, ok)
    \/ CacheClear

SpecCache == InitCache /\ [][NextCache]_vars

\* ------------------------------------------------------------------------
\* Claims about the cache
\* ------------------------------------------------------------------------

\* C1: the cache never holds more than max_cache_size entries, whatever the
\* sequence of calls and clears, more distinct keys than the capacity included
C1_CacheBounded == Len(disp_cache) <= MaxCacheSize

\* C1 witness: a miss on a full cache has just evicted an entry
C1_Witness == op = "miss" /\ evicted # NoKey /\ Len(disp_cache) = MaxCacheSize

MissOnFull == op' = "miss" /\ Len(disp_cache) >= MaxCacheSize

OneEvicted ==
    /\ Len(disp_cache') = Len(disp_cache)
    /\ evicted' \in CacheKeys(disp_cache)
    /\ CacheKeys(disp_cache') = (CacheKeys(disp_cache) \ {evicted'}) \cup {lastKey'}

\* C9 as stated: a miss on a full cache evicts exactly one entry, the one
\* inserted earliest among those cached, hit since or not
C9_EvictsOldestInserted ==
    [][MissOnFull => OneEvicted /\ evicted' = insOrder[1].key]_vars

\* C9 as amended: a miss on a full cache evicts exactly one entry, the one
\* touched (inserted or hit) longest ago
C9_EvictsLeastRecentlyTouched ==
    [][MissOnFull => OneEvicted /\ evicted' = touchOrder[1]]_vars

\* C9 witness: an eviction happened while an entry hit since its insertion
\* was cached
C9_Witness == op = "miss" /\ evicted # NoKey /\ hitKeys # {}

BmpOf(cache, key) == cache[CacheIndex(cache, key)].bmp

InsertedBmp(key) ==
    LET i == CHOOSE j \in 1..Len(insOrder) : insOrder[j].key = key
    IN  insOrder[i].bmp

\* the entries never hit since insertion, in cache order
NeverHit(s) == SelectSeq(s, LAMBDA k : k \notin hitKeys)

KeySeq(cache) == [i \in 1..Len(cache) |-> cache[i].key]

\* C10: a hit on k returns the bitmap stored when k was inserted, changes
\* neither the cached keys nor any stored bitmap and makes k the most recent
\* entry; so the entries are always ordered by last touch (the next victim is
\* the one touched longest ago) and the never-hit ones by insertion
C10_HitPromotes ==
    /\ [][op' = "hit" =>
            /\ lastKey' \in CacheKeys(disp_cache)
            /\ ret' = InsertedBmp(lastKey')
            /\ CacheKeys(disp_cache') = CacheKeys(disp_cache)
            /\ \A k \in CacheKeys(disp_cache) :
                   BmpOf(disp_cache', k) = BmpOf(disp_cache, k)
            /\ disp_cache'[Len(disp_cache')].key = lastKey']_vars
    /\ [](/\ KeySeq(disp_cache) = touchOrder
          /\ NeverHit(KeySeq(disp_cache)) = NeverHit(KeySeq(insOrder)))

\* C10 witness: a hit returned a bitmap made for another zoom than an entry
\* inserted later, while a never-hit entry is still cached
C10_Witness ==
    /\ op = "hit"
    /\ Len(disp_cache) = MaxCacheSize
    /\ hitKeys # CacheKeys(disp_cache)

\* the image the bitmap bmp was resampled from
SourceOf(bmp) == CHOOSE im \in CacheImages : im.id = bmp.src

\* round(m * z) for a natural m: Python's round() takes the nearest integer
\* and the even one of the two when m * z lies halfway
RoundMul(m, z) ==
    LET f2 == RatFloorMul(2 * m, z)
        tie == f2 % 2 = 1 /\ RatLe(RatMul(Rat(2 * m, 1), z), Rat(f2, 1))
        lo == f2 \div 2
    IN  IF tie THEN (IF lo % 2 = 0 THEN lo ELSE lo + 1) ELSE (f2 + 1) \div 2

\* n is the integer part of m * z, or 1 when m * z < 1
IsTruncOr1(n, m, z) ==
    LET x == RatMul(Rat(m, 1), z)
    IN  /\ n >= 1
        /\ n = 1 \/ RatLe(Rat(n, 1), x)
        /\ ~RatLe(Rat(n + 1, 1), x)

\* C25 as stated: on a cache miss the bitmap made has the size
\* max(1, round(width * zoom)) x max(1, round(height * zoom))
C25_MissSizeRounded ==
    [][op' = "miss" =>
          /\ ret'.nw = Max(1, RoundMul(SourceOf(ret').w, ret'.zoom))
          /\ ret'.nh = Max(1, RoundMul(SourceOf(ret').h, ret'.zoom))]_vars

\* C25 as amended: on a cache miss the bitmap made has the size
\* max(1, int(width * zoom)) x max(1, int(height * zoom)), the products
\* truncated to their integer part and not rounded
C25_MissSizeTruncated ==
    [][op' = "miss" =>
          /\ IsTruncOr1(ret'.nw, SourceOf(ret').w, ret'.zoom)
          /\ IsTruncOr1(ret'.nh, SourceOf(ret').h, ret'.zoom)]_vars

\* C25 witness: a miss made the 300 x 200 image at zoom 1/3 a bitmap of
\* height 66, where 200/3 = 66.67 rounds to 67
C25_Witness ==
    /\ op = "miss" /\ ret.src = 1 /\ ret.zoom = Rat(1, 3)
    /\ ret.nw = 100 /\ ret.nh = 66

\* ------------------------------------------------------------------------
\* The application: user events, worker threads and posted callbacks
\* ------------------------------------------------------------------------

\* the state s becomes the state of the program
Commit(s) ==
    /\ disp_cache' = s.cache /\ zoom' = s.zoom
    /\ pan_x' = s.pan_x /\ pan_y' = s.pan_y
    /\ split_pos' = s.split_pos /\ mode' = s.mode /\ toggle_idx' = s.toggle_idx
    /\ im1_orig' = s.im1_orig /\ im2_orig' = s.im2_orig
    /\ im1_raw' = s.im1_raw /\ im2_raw' = s.im2_raw
    /\ im_diff' = s.im_diff /\ im_diff_key' = s.im_diff_key
    /\ im_diff_key2' = s.im_diff_key2
    /\ loading' = s.loading /\ status' = s.status
    /\ current_psnr' = s.current_psnr /\ in_progress' = s.in_progress
    /\ refresh_after_id' = s.refresh_after_id
    /\ folder_mode' = s.folder_mode /\ folder1_set' = s.folder1_set
    /\ folder2_set' = s.folder2_set /\ total_images' = s.total_images
    /\ current_image_index' = s.current_image_index
    /\ load_threads' = s.load_threads /\ psnr_threads' = s.psnr_threads
    /\ nextId' = s.nextId /\ nLoads' = s.nLoads
    /\ toggle_pressed' = s.toggle_pressed /\ dragging' = s.dragging
    /\ slider_drag' = s.slider_drag
    /\ last_drag_x' = s.last_drag_x /\ last_drag_y' = s.last_drag_y
    /\ timers' = s.timers /\ nextTimer' = s.nextTimer
    /\ im1_path' = s.im1_path /\ im2_path' = s.im2_path
    /\ raised' = s.exc /\ redraws' = s.redraws

\* a handler run on the interactive context; resize_ok = FALSE: im.resize
\* raises in this handler's redraws
CurOk(resize_ok) == [Cur EXCEPT !.resize_ok = resize_ok]

HandlerStep(name, s) ==
    Commit(s) /\ ctx' = "ui" /\ act' = name /\ UNCHANGED <<callVars, pixels>>

\* a handler that is not one of the button-1 handlers
UIStep(name, s) == HandlerStep(name, s) /\ UNCHANGED <<press, probe, canvas>>

\* a step of a worker thread
WorkerStep(name, s) ==
    /\ Commit([s EXCEPT !.exc = raised, !.redraws = redraws])
    /\ ctx' = "worker" /\ act' = name
    /\ UNCHANGED <<callVars, cw, ch, nZoom, trip, press, probe, canvas, pixels>>

Quiet == UNCHANGED <<cw, ch, main_queue, nZoom>> /\ trip' = NoTrip

\* ---- user events

LoadIm(slot, f) == UIStep("load_im", load_im(Cur, slot, f)) /\ Quiet

LoadFolder(k) == folder_mode /\ UIStep("load_folder", load_folder(Cur, k)) /\ Quiet

StepImage(step) ==
    /\ folder_mode /\ total_images > 0
    /\ UIStep("step_image", step_image(Cur, step)) /\ Quiet

SwitchCompareMode(folder) ==
    /\ folder # folder_mode
    /\ UIStep("switch_compare_mode", switch_compare_mode(Cur, folder)) /\ Quiet

KeyMode(m, ok) == UIStep("on_mode_change", on_mode_change(CurOk(ok), m)) /\ Quiet

KeyToggle(ok) == UIStep("toggle", toggle(CurOk(ok))) /\ Quiet

Zoom1x(ok) == UIStep("zoom_1x", zoom_1x(CurOk(ok))) /\ Quiet

FitWin(ok) == UIStep("fit_win", fit_win(CurOk(ok))) /\ Quiet

ZoomIn(ok) ==
    /\ UIStep("zoom_in", zoom_in(CurOk(ok)))
    /\ nZoom' = nZoom + 1
    /\ trip' = IF trip.ins > 0 /\ trip.outs = 0
               THEN [trip EXCEPT !.ins = @ + 1]
               ELSE [z0 |-> zoom, ins |-> 1, outs |-> 0]
    /\ UNCHANGED <<cw, ch, main_queue>>

ZoomOut(ok) ==
    /\ UIStep("zoom_out", zoom_out(CurOk(ok)))
    /\ nZoom' = nZoom + 1
    /\ trip' = IF trip.ins > trip.outs THEN [trip EXCEPT !.outs = @ + 1] ELSE NoTrip
    /\ UNCHANGED <<cw, ch, main_queue>>

\* button 1 goes down, moves while down, and goes up
B1Down(x, y, ok) ==
    /\ ~press.down
    /\ HandlerStep("on_b1_down", on_b1_down(CurOk(ok), x, y))
    /\ press' = [down |-> TRUE,
                 idx |-> IF toggle_idx' # toggle_idx THEN toggle_idx ELSE 0]
    /\ UNCHANGED <<probe, canvas>>
    /\ Quiet

B1Move(x, y, ok) ==
    /\ press.down
    /\ HandlerStep("on_b1_move", on_b1_move(CurOk(ok), x, y))
    /\ UNCHANGED <<press, probe, canvas>>
    /\ Quiet

B1Up(ok) ==
    /\ press.down
    /\ HandlerStep("on_b1_up", on_b1_up(CurOk(ok)))
    /\ press' = NoPress
    /\ UNCHANGED <<probe, canvas>>
    /\ Quiet

\* a call of SRCompareApp.schedule_refresh() (immediate=False)
ScheduleRefresh ==
    UIStep("schedule_refresh", schedule_refresh(Cur, FALSE)) /\ Quiet

\* the delay of the timer id has elapsed: Tk runs _do_refresh
TimerFire(id, ok) ==
    /\ id \in timers
    /\ UIStep("do_refresh", do_refresh([CurOk(ok) EXCEPT !.timers = @ \ {id}]))
    /\ Quiet

\* the image point (ix, iy) is mapped to the canvas and the canvas point
\* back to the image
MapPoint(ix, iy) ==
    \E fwd \in {image_to_canvas(Cur, ix, iy)} :
    \E s \in {[Cur EXCEPT !.cache = fwd.cache]} :
    \E back \in {canvas_to_image(s, fwd.cx, fwd.cy)} :
        /\ HandlerStep("canvas_to_image", [s EXCEPT !.cache = back.cache])
        /\ probe' = [ix |-> ix, iy |-> iy, cx |-> fwd.cx, cy |-> fwd.cy,
                     rx |-> back.ix, ry |-> back.iy, nw |-> fwd.nw, nh |-> fwd.nh]
        /\ UNCHANGED <<press, canvas>>
        /\ Quiet

\* <Configure>: the canvas has a new size
Configure(vp, ok) ==
    /\ <<cw, ch>> # vp
    /\ cw' = vp[1] /\ ch' = vp[2]
    /\ UIStep("configure", refresh_now([CurOk(ok) EXCEPT !.cw = vp[1], !.ch = vp[2]]))
    /\ trip' = NoTrip
    /\ UNCHANGED <<main_queue, nZoom>>

\* a call of PSNRCalculator.start_calculation (SRCompareApp._start_psnr_calculation)
StartCalculation == UIStep("start_calculation", start_calculation(Cur)) /\ Quiet

\* ---- worker threads

LoadThreadSetLoading(i) ==
    /\ load_threads[i].pc = "start"
    /\ WorkerStep("load_thread_set_loading", set_loading([Cur EXCEPT !.load_threads[i].pc = "decode"],
                              TRUE, "loading"))
    /\ UNCHANGED main_queue

Callback(kind, slot, a, b, value) ==
    [kind |-> kind, slot |-> slot, a |-> a, b |-> b, value |-> value,
     f1 |-> "", f2 |-> ""]

\* finish of _load_image_pair_thread: the closure holds the two paths too
PairCallback(a, b, f1, f2) ==
    [kind |-> "finish_pair", slot |-> 0, a |-> a, b |-> b, value |-> PsnrNone,
     f1 |-> f1, f2 |-> f2]

LoadThreadDecode(i) ==
    \E t \in {load_threads[i]}, s \in {[Cur EXCEPT !.load_threads = SeqRemoveAt(@, i)]} :
    \E im \in {load_single_image(t.f1, nextId)},
       p \in {load_image_pair(t.f1, t.f2, UNIFORM_SIZE, nextId)} :
        /\ t.pc = "decode"
        /\ IF t.kind = "single"
           THEN /\ WorkerStep("load_thread_decode", [s EXCEPT !.nextId = NextFreeId(s, im, NoneIm)])
                /\ main_queue' = Append(main_queue,
                       Callback("finish_single", t.slot, im, NoneIm, PsnrNone))
           ELSE /\ WorkerStep("load_thread_decode", [s EXCEPT !.nextId = NextFreeId(s, p[1], p[2])])
                /\ main_queue' = Append(main_queue,
                       PairCallback(p[1], p[2], t.f1, t.f2))

\* _calculate_psnr_thread evaluates app.im1_orig, then app.im2_orig
PsnrThreadRead1(i) ==
    /\ psnr_threads[i].pc = "start"
    /\ WorkerStep("psnr_thread_read1", [Cur EXCEPT !.psnr_threads[i] = [pc |-> "read2", a |-> im1_orig]])
    /\ UNCHANGED main_queue

PsnrThreadRead2(i) ==
    /\ psnr_threads[i].pc = "read2"
    /\ WorkerStep("psnr_thread_read2", [Cur EXCEPT !.psnr_threads = SeqRemoveAt(@, i)])
    /\ main_queue' = Append(main_queue,
           Callback("psnr_done", 0, NoneIm, NoneIm,
                    calculate_psnr_sync(psnr_threads[i].a, im2_orig)))

\* ---- callbacks posted with root.after(0, ...), run in order

Posted(kind) == main_queue # <<>> /\ Head(main_queue).kind = kind

Dequeue == main_queue' = Tail(main_queue) /\ trip' = NoTrip /\ UNCHANGED <<cw, ch, nZoom>>

FinishSingle(ok) ==
    /\ Posted("finish_single")
    /\ UIStep("finish_single", finish_single(CurOk(ok), Head(main_queue).slot, Head(main_queue).a))
    /\ Dequeue

FinishPair(ok) ==
    /\ Posted("finish_pair")
    /\ UIStep("finish_pair", finish_pair(CurOk(ok), Head(main_queue).a, Head(main_queue).b,
                                       Head(main_queue).f1, Head(main_queue).f2))
    /\ Dequeue

OnPsnrCalculated ==
    /\ Posted("psnr_done")
    /\ UIStep("on_psnr_calculated", on_psnr_calculated(Cur, Head(main_queue).value))
    /\ Dequeue

Init == InitApp /\ InitCacheVars

\* The specifications below run the handlers with im.resize succeeding
\* (resize_ok = TRUE); a failing resize is exercised by SpecCache.

\* ---- loads and PSNR calculations racing, in a window of one size

\* the state after construction and the first <Configure> of the window:
\* Init followed by Configure(<<600, 300>>, TRUE)
InitMapped ==
    /\ InitCacheVars
    /\ zoom = ZOOM_1X /\ pan_x = PAN_ZERO /\ pan_y = PAN_ZERO
    /\ split_pos = SPLIT_HALF /\ mode = "side_by_side" /\ toggle_idx = 1
    /\ im1_orig = NoneIm /\ im2_orig = NoneIm
    /\ im1_raw = NoneIm /\ im2_raw = NoneIm
    /\ im_diff = NoneIm /\ im_diff_key = 0 /\ im_diff_key2 = 0
    /\ loading = FALSE /\ status = "hint"
    /\ current_psnr = PsnrNone /\ in_progress = FALSE
    /\ refresh_after_id = NoTimer /\ timers = {} /\ nextTimer = 1
    /\ toggle_pressed = FALSE /\ dragging = FALSE /\ slider_drag = FALSE
    /\ last_drag_x = 0 /\ last_drag_y = 0 /\ press = NoPress
    /\ probe = NoProbe /\ canvas = NoCanvas /\ pixels = NoPixels
    /\ im1_path = "" /\ im2_path = ""
    /\ folder_mode = FALSE /\ folder1_set = FALSE /\ folder2_set = FALSE
    /\ total_images = 0 /\ current_image_index = 0
    /\ cw = 600 /\ ch = 300
    /\ load_threads = <<>> /\ psnr_threads = <<>> /\ main_queue = <<>>
    /\ nextId = 1
    /\ ctx = "ui" /\ act = "configure" /\ raised = FALSE /\ redraws = 1
    /\ nLoads = 0 /\ nZoom = 0 /\ trip = NoTrip

PsnrFiles == {"small", "bad"}

NextPsnr ==
    \/ \E slot \in {1, 2}, f \in PsnrFiles : LoadIm(slot, f) /\ nLoads' <= MaxLoads
    \/ \E k \in {1, 2} : LoadFolder(k) /\ nLoads' <= MaxLoads
    \/ \E step \in {-1, 1} : StepImage(step) /\ nLoads' <= MaxLoads
    \/ \E folder \in BOOLEAN : SwitchCompareMode(folder) /\ nLoads' <= MaxLoads
    \/ StartCalculation
    \/ \E i \in 1..Len(load_threads) : LoadThreadSetLoading(i)
    \/ \E i \in 1..Len(load_threads) : LoadThreadDecode(i)
    \/ \E i \in 1..Len(psnr_threads) : PsnrThreadRead1(i)
    \/ \E i \in 1..Len(psnr_threads) : PsnrThreadRead2(i)
    \/ FinishSingle(TRUE)
    \/ FinishPair(TRUE)
    \/ OnPsnrCalculated

SpecPsnr == InitMapped /\ [][NextPsnr]_vars

\* ---- the zoom keys, in a window that is resized, with one image

MappedViewports == {<<600, 300>>, <<800, 400>>}

ZoomFiles == {"small", "large"}

\* the sizes the canvas is resized to: the two above, one in which the
\* 2000 x 1000 image fits at 0.2, and one too small for it to fit at 0.01
ZoomViewports == MappedViewports \cup {<<400, 300>>, <<10, 5>>}

NextZoom ==
    \/ \E slot \in {1, 2}, f \in ZoomFiles : LoadIm(slot, f) /\ nLoads' <= MaxZoomLoads
    \/ \E i \in 1..Len(load_threads) : LoadThreadSetLoading(i)
    \/ \E i \in 1..Len(load_threads) : LoadThreadDecode(i)
    \/ FinishSingle(TRUE)
    \/ \E vp \in ZoomViewports : Configure(vp, TRUE)
    \/ Zoom1x(TRUE)
    \/ FitWin(TRUE)
    \/ ZoomIn(TRUE) /\ nZoom' <= MaxZoomOps
    \/ ZoomOut(TRUE) /\ nZoom' <= MaxZoomOps

SpecZoom == Init /\ [][NextZoom]_vars

\* ---- the mode keys, in a window that is resized, with up to two images

ModeFiles == {"small"}

NextModes ==
    \/ \E slot \in {1, 2}, f \in ModeFiles : LoadIm(slot, f) /\ nLoads' <= MaxModeLoads
    \/ \E i \in 1..Len(load_threads) : LoadThreadSetLoading(i)
    \/ \E i \in 1..Len(load_threads) : LoadThreadDecode(i)
    \/ \E i \in 1..Len(psnr_threads) : PsnrThreadRead1(i)
    \/ \E i \in 1..Len(psnr_threads) : PsnrThreadRead2(i)
    \/ FinishSingle(TRUE)
    \/ OnPsnrCalculated
    \/ \E vp \in MappedViewports : Configure(vp, TRUE)
    \/ \E m \in Modes : KeyMode(m, TRUE)
    \/ KeyToggle(TRUE)

SpecModes == Init /\ [][NextModes]_vars

\* ---- images of different sizes loaded and replaced, single and in pairs,
\* ---- with the difference image shown or not

AlignFiles == {"small", "large"}

AlignModes == {"side_by_side", "difference"}

NextAlign ==
    \/ \E slot \in {1, 2}, f \in AlignFiles : LoadIm(slot, f) /\ nLoads' <= MaxAlignLoads
    \/ \E folder \in BOOLEAN : SwitchCompareMode(folder) /\ nLoads' <= MaxAlignLoads
    \/ \E k \in {1, 2} : LoadFolder(k) /\ nLoads' <= MaxAlignLoads
    \/ \E i \in 1..Len(load_threads) : LoadThreadSetLoading(i)
    \/ \E i \in 1..Len(load_threads) : LoadThreadDecode(i)
    \/ FinishSingle(TRUE)
    \/ FinishPair(TRUE)
    \/ \E m \in AlignModes : KeyMode(m, TRUE)

SpecAlign == InitMapped /\ [][NextAlign]_vars

\* ---- debounced and immediate refresh requests, with image 1 loaded or not,
\* in a window that is resized

RefreshFiles == {"small"}
RefreshModes == {"side_by_side", "magnifier"}

NextRefresh ==
    \/ ScheduleRefresh /\ nextTimer' <= MaxRequests + 1
    \/ \E id \in timers : TimerFire(id, TRUE)
    \/ \E vp \in MappedViewports : Configure(vp, TRUE)
    \/ \E m \in RefreshModes : KeyMode(m, TRUE)
    \/ \E f \in RefreshFiles : LoadIm(1, f) /\ nLoads' <= MaxRefreshLoads
    \/ \E i \in 1..Len(load_threads) : LoadThreadSetLoading(i)
    \/ \E i \in 1..Len(load_threads) : LoadThreadDecode(i)
    \/ FinishSingle(TRUE)

SpecRefresh == InitMapped /\ [][NextRefresh]_vars

\* ---- the coordinate mapping applied to the points of a loaded image, for
\* zooms in [ZOOM_MIN, ZOOM_MAX] and pans in [-10, 10], in a window of 600 x 300

CoordImages == {[id |-> 1, w |-> 2000, h |-> 1000], [id |-> 1, w |-> 10, h |-> 5]}

\* 0.01, the fit zoom 0.3 of the 2000 x 1000 image, 1.0, 1.25, the fit zoom
\* 60 of the 10 x 5 image and 64
CoordZooms == {ZOOM_MIN, Rat(3, 10), ZOOM_1X, ZOOM_STEP, Rat(60, 1), ZOOM_MAX}

CoordPans == {PAN_ZERO, [n |-> 1, d |-> 4], [n |-> -1, d |-> 3]}

\* interior points of the image im
CoordXs(im) == {1, im.w \div 3, im.w - 2}
CoordYs(im) == {1, im.h \div 3, im.h - 2}

\* image 1 is loaded, the view has been zoomed and panned
InitCoords ==
    /\ InitCacheVars
    /\ zoom \in CoordZooms /\ pan_x \in CoordPans /\ pan_y \in CoordPans
    /\ split_pos = SPLIT_HALF /\ mode = "side_by_side" /\ toggle_idx = 1
    /\ im1_orig \in CoordImages /\ im2_orig = NoneIm
    /\ im1_raw = im1_orig /\ im2_raw = NoneIm
    /\ im_diff = NoneIm /\ im_diff_key = 0 /\ im_diff_key2 = 0
    /\ loading = FALSE /\ status = "hint"
    /\ current_psnr = PsnrNone /\ in_progress = FALSE
    /\ refresh_after_id = NoTimer /\ timers = {} /\ nextTimer = 1
    /\ toggle_pressed = FALSE /\ dragging = FALSE /\ slider_drag = FALSE
    /\ last_drag_x = 0 /\ last_drag_y = 0 /\ press = NoPress
    /\ probe = NoProbe /\ canvas = NoCanvas /\ pixels = NoPixels
    /\ im1_path = (IF im1_orig.w = 10 THEN "small" ELSE "large") /\ im2_path = ""
    /\ folder_mode = FALSE /\ folder1_set = FALSE /\ folder2_set = FALSE
    /\ total_images = 0 /\ current_image_index = 0
    /\ cw = 600 /\ ch = 300
    /\ load_threads = <<>> /\ psnr_threads = <<>> /\ main_queue = <<>>
    /\ nextId = 2
    /\ ctx = "ui" /\ act = "on_b1_up" /\ raised = FALSE /\ redraws = 0
    /\ nLoads = 1 /\ nZoom = 0 /\ trip = NoTrip

NextCoords ==
    \E ix \in CoordXs(im1_orig), iy \in CoordYs(im1_orig) : MapPoint(ix, iy)

SpecCoords == InitCoords /\ [][NextCoords]_vars

\* ---- button 1 pressed, dragged and released between key presses, wheel
\* steps and loads (one at a time), in a window of 600 x 300

MouseFiles == {"large"}
MouseModes == {"toggle", "slider"}

\* where the pointer is when an event of button 1 is delivered: the centre
\* of the canvas, and a point the pointer is dragged to outside of it
MousePoints == {<<300, 150>>, <<2400, 1350>>}

NextMouse ==
    \/ \E slot \in {1, 2}, f \in MouseFiles :
           /\ load_threads = <<>> /\ main_queue = <<>>
           /\ LoadIm(slot, f) /\ nLoads' <= MaxMouseLoads
    \/ \E i \in 1..Len(load_threads) : LoadThreadSetLoading(i)
    \/ \E i \in 1..Len(load_threads) : LoadThreadDecode(i)
    \/ FinishSingle(TRUE)
    \/ \E m \in MouseModes : KeyMode(m, TRUE)
    \/ KeyToggle(TRUE)
    \/ ZoomOut(TRUE) /\ nZoom' <= MaxMouseZooms
    \/ \E p \in MousePoints : B1Down(p[1], p[2], TRUE)
    \/ \E p \in MousePoints : B1Move(p[1], p[2], TRUE)
    \/ B1Up(TRUE)

SpecMouse == InitMapped /\ [][NextMouse]_vars

\* ---- the pointer moves over the canvas in magnifier mode, both images
\* loaded, in viewports of several sizes

MagnifierImages == {[id |-> 1, w |-> 2000, h |-> 1000], [id |-> 1, w |-> 60, h |-> 40],
                    [id |-> 1, w |-> 10, h |-> 5]}

MagnifierZooms == {Rat(3, 10), ZOOM_1X, Rat(4, 1)}

\* 600 x 300 holds the largest overlay (400 x 200); the others do not
MagnifierViewports == {<<600, 300>>, <<300, 150>>, <<120, 400>>, <<2, 2>>}

\* the pointer relative to the canvas: inside it, on its edges, and outside
\* of it (winfo_pointerx() - winfo_rootx() is negative left of the canvas)
Pointers == {<<0, 0>>, <<60, 70>>, <<299, 149>>, <<590, 290>>, <<-30, 100>>, <<700, 20>>}

InitMagnifier ==
    /\ InitCacheVars
    /\ zoom \in MagnifierZooms /\ pan_x = PAN_ZERO /\ pan_y = PAN_ZERO
    /\ split_pos = SPLIT_HALF /\ mode = "magnifier" /\ toggle_idx = 1
    /\ im1_orig \in MagnifierImages
    /\ im2_orig = [im1_orig EXCEPT !.id = 2]
    /\ im1_raw = im1_orig /\ im2_raw = im2_orig
    /\ im_diff = NoneIm /\ im_diff_key = 0 /\ im_diff_key2 = 0
    /\ loading = FALSE /\ status = "hint"
    /\ current_psnr = PsnrOf(im1_orig, im2_orig) /\ in_progress = FALSE
    /\ refresh_after_id = NoTimer /\ timers = {} /\ nextTimer = 1
    /\ toggle_pressed = FALSE /\ dragging = FALSE /\ slider_drag = FALSE
    /\ last_drag_x = 0 /\ last_drag_y = 0 /\ press = NoPress
    /\ probe = NoProbe /\ canvas = NoCanvas /\ pixels = NoPixels
    /\ im1_path = "a" /\ im2_path = "b"
    /\ folder_mode = FALSE /\ folder1_set = FALSE /\ folder2_set = FALSE
    /\ total_images = 0 /\ current_image_index = 0
    /\ \E vp \in MagnifierViewports : cw = vp[1] /\ ch = vp[2]
    /\ load_threads = <<>> /\ psnr_threads = <<>> /\ main_queue = <<>>
    /\ nextId = 3
    /\ ctx = "ui" /\ act = "on_mode_change" /\ raised = FALSE /\ redraws = 1
    /\ nLoads = 2 /\ nZoom = 0 /\ trip = NoTrip

\* <Motion> with the pointer at (mx, my): the redraw reads the pointer
OnMove(mx, my) ==
    /\ HandlerStep("on_move", on_move(Cur))
    /\ canvas' = IF mode = "magnifier" /\ im1_orig # NoneIm /\ im2_orig # NoneIm
                 THEN magnifier_overlay(Cur, mx, my) ELSE canvas
    /\ UNCHANGED <<press, probe>>
    /\ Quiet

NextMagnifier == \E p \in Pointers : OnMove(p[1], p[2])

SpecMagnifier == InitMagnifier /\ [][NextMagnifier]_vars

\* ---- the window is resized in slider mode, the view zoomed and panned
\* and the split line dragged beforehand

SliderImages == {[id |-> 1, w |-> 1000, h |-> 500], [id |-> 1, w |-> 10, h |-> 5]}

SliderZooms == {Rat(3, 10), ZOOM_1X, Rat(7, 3)}

SliderPans == {PAN_ZERO, [n |-> -1, d |-> 3]}

\* split_pos = ix / width for a column ix the line was dragged to
SliderSplits == {SPLIT_MIN, [n |-> 3, d |-> 10], SPLIT_HALF, [n |-> 7, d |-> 10], SPLIT_MAX}

SliderViewports == {<<600, 300>>, <<1200, 600>>, <<150, 90>>}

InitSlider ==
    /\ InitCacheVars
    /\ zoom \in SliderZooms /\ pan_x \in SliderPans /\ pan_y = PAN_ZERO
    /\ split_pos \in SliderSplits /\ mode = "slider" /\ toggle_idx = 1
    /\ im1_orig \in SliderImages
    /\ im2_orig \in {[im1_orig EXCEPT !.id = 2], NoneIm}
    /\ im1_raw = im1_orig /\ im2_raw = im2_orig
    /\ im_diff = NoneIm /\ im_diff_key = 0 /\ im_diff_key2 = 0
    /\ loading = FALSE /\ status = "hint"
    /\ current_psnr = (IF im2_orig = NoneIm THEN PsnrNone ELSE PsnrOf(im1_orig, im2_orig))
    /\ in_progress = FALSE
    /\ refresh_after_id = NoTimer /\ timers = {} /\ nextTimer = 1
    /\ toggle_pressed = FALSE /\ dragging = FALSE /\ slider_drag = FALSE
    /\ last_drag_x = 0 /\ last_drag_y = 0 /\ press = NoPress
    /\ probe = NoProbe /\ canvas = NoCanvas /\ pixels = NoPixels
    /\ im1_path = "a" /\ im2_path = (IF im2_orig = NoneIm THEN "" ELSE "b")
    /\ folder_mode = FALSE /\ folder1_set = FALSE /\ folder2_set = FALSE
    /\ total_images = 0 /\ current_image_index = 0
    /\ cw = 600 /\ ch = 300
    /\ load_threads = <<>> /\ psnr_threads = <<>> /\ main_queue = <<>>
    /\ nextId = 3
    /\ ctx = "ui" /\ act = "on_b1_up" /\ raised = FALSE /\ redraws = 0
    /\ nLoads = 2 /\ nZoom = 0 /\ trip = NoTrip

\* <Configure>: the canvas gets the size vp and is redrawn at once
SliderConfigure(vp) ==
    \E s \in {[Cur EXCEPT !.cw = vp[1], !.ch = vp[2]]} :
        /\ <<cw, ch>> # vp
        /\ cw' = vp[1] /\ ch' = vp[2]
        /\ HandlerStep("configure", refresh_now(s))
        /\ canvas' = IF mode = "slider" THEN slider_composite(s) ELSE canvas
        /\ trip' = NoTrip
        /\ UNCHANGED <<press, probe, main_queue, nZoom>>

NextSlider == \E vp \in SliderViewports : SliderConfigure(vp)

SpecSlider == InitSlider /\ [][NextSlider]_vars

\* ---- key 5 (difference mode) with two loaded images of 2 x 1 pixels

DiffPixels == {<<0, 0, 0>>, <<255, 0, 3>>, <<3, 3, 3>>, <<0, 255, 255>>, <<100, 200, 40>>}

DiffImages == [1..2 -> DiffPixels]

InitDifference ==
    /\ InitCacheVars
    /\ zoom = ZOOM_1X /\ pan_x = PAN_ZERO /\ pan_y = PAN_ZERO
    /\ split_pos = SPLIT_HALF /\ mode = "side_by_side" /\ toggle_idx = 1
    /\ im1_orig = [id |-> 1, w |-> 2, h |-> 1]
    /\ im2_orig = [id |-> 2, w |-> 2, h |-> 1]
    /\ im1_raw = im1_orig /\ im2_raw = im2_orig
    /\ im_diff = NoneIm /\ im_diff_key = 0 /\ im_diff_key2 = 0
    /\ loading = FALSE /\ status = "hint"
    /\ current_psnr = PsnrOf(im1_orig, im2_orig) /\ in_progress = FALSE
    /\ refresh_after_id = NoTimer /\ timers = {} /\ nextTimer = 1
    /\ toggle_pressed = FALSE /\ dragging = FALSE /\ slider_drag = FALSE
    /\ last_drag_x = 0 /\ last_drag_y = 0 /\ press = NoPress
    /\ probe = NoProbe /\ canvas = NoCanvas
    /\ \E A \in DiffImages, B \in DiffImages : pixels = [a |-> A, b |-> B]
    /\ im1_path = "a" /\ im2_path = "b"
    /\ folder_mode = FALSE /\ folder1_set = FALSE /\ folder2_set = FALSE
    /\ total_images = 0 /\ current_image_index = 0
    /\ cw = 600 /\ ch = 300
    /\ load_threads = <<>> /\ psnr_threads = <<>> /\ main_queue = <<>>
    /\ nextId = 3
    /\ ctx = "ui" /\ act = "finish_single" /\ raised = FALSE /\ redraws = 1
    /\ nLoads = 2 /\ nZoom = 0 /\ trip = NoTrip

\* key 5, or key 1: the redraw of difference mode computes the difference
\* image when none is kept for the two loaded images
DifferenceKey(md) ==
    /\ HandlerStep("on_mode_change", on_mode_change(Cur, md))
    /\ canvas' = IF md = "difference" /\ needs_recompute(Cur)
                 THEN [tag |-> "difference",
                       out |-> compute_difference(pixels.a, pixels.b)]
                 ELSE canvas
    /\ UNCHANGED <<press, probe>>
    /\ Quiet

NextDifference == \E md \in {"difference", "side_by_side"} : DifferenceKey(md)

SpecDifference == InitDifference /\ [][NextDifference]_vars

\* ---- folder comparison: the two folders are picked, then the pairs are
\* stepped through with the previous / next buttons while load threads run

MaxFolderLoads == 3

NextFolder ==
    \/ SwitchCompareMode(TRUE)
    \/ \E k \in {1, 2} : LoadFolder(k) /\ nLoads' <= MaxFolderLoads
    \/ \E step \in {-1, 1} : StepImage(step) /\ nLoads' <= MaxFolderLoads
    \/ \E i \in 1..Len(load_threads) : LoadThreadSetLoading(i)
    \/ \E i \in 1..Len(load_threads) : LoadThreadDecode(i)
    \/ \E i \in 1..Len(psnr_threads) : PsnrThreadRead1(i)
    \/ \E i \in 1..Len(psnr_threads) : PsnrThreadRead2(i)
    \/ FinishPair(TRUE)
    \/ OnPsnrCalculated

SpecFolder == InitMapped /\ [][NextFolder]_vars

\* ---- single loads and the PSNR calculations they launch, with the
\* scheduling the run time gives: a started thread runs to its end, and the
\* Tk main loop runs every callback posted with root.after(0, ...)

MaxLiveLoads == 3

LiveFiles == {"small", "bad"}

\* a step of a running thread, or the main loop running the next callback
Scheduled ==
    \/ \E i \in 1..Len(load_threads) : LoadThreadSetLoading(i)
    \/ \E i \in 1..Len(load_threads) : LoadThreadDecode(i)
    \/ \E i \in 1..Len(psnr_threads) : PsnrThreadRead1(i)
    \/ \E i \in 1..Len(psnr_threads) : PsnrThreadRead2(i)
    \/ FinishSingle(TRUE)
    \/ OnPsnrCalculated

NextLive ==
    \/ \E slot \in {1, 2}, f \in LiveFiles :
           LoadIm(slot, f) /\ nLoads' <= MaxLiveLoads
    \/ Scheduled

\* the guards of Scheduled: a thread runs or a callback is posted
ScheduledEnabled ==
    load_threads # <<>> \/ psnr_threads # <<>> \/ main_queue # <<>>

\* the steps of Scheduled, by the name they leave in act
ScheduledActs ==
    {"load_thread_set_loading", "load_thread_decode", "psnr_thread_read1",
     "psnr_thread_read2", "finish_single", "on_psnr_calculated"}

\* threads and posted callbacks are not held up forever, while the user
\* may stop: WF_vars(Scheduled), written with the guard of Scheduled for
\* ENABLED <<Scheduled>>_vars and with the name of the step for
\* <<Scheduled>>_vars
LiveFairness ==
    \/ []<>(~ScheduledEnabled)
    \/ []<><<act' \in ScheduledActs>>_vars

SpecLive == InitMapped /\ [][NextLive]_vars /\ LiveFairness

\* ------------------------------------------------------------------------
\* Claims about loads and PSNR calculations
\* ------------------------------------------------------------------------

\* the fields of the program, the threads and the posted callbacks
ProgramState ==
    <<disp_cache, zoom, pan_x, pan_y, split_pos, mode, toggle_idx,
      im1_orig, im2_orig, im1_raw, im2_raw, im_diff, im_diff_key, im_diff_key2,
      loading, status, current_psnr, in_progress, refresh_after_id,
      folder_mode, folder1_set, folder2_set, total_images, current_image_index,
      load_threads, psnr_threads, main_queue,
      toggle_pressed, dragging, slider_drag, last_drag_x, last_drag_y, timers>>

\* the same but current_psnr and the status text
ProgramStateButResult ==
    <<disp_cache, zoom, pan_x, pan_y, split_pos, mode, toggle_idx,
      im1_orig, im2_orig, im1_raw, im2_raw, im_diff, im_diff_key, im_diff_key2,
      loading, in_progress, refresh_after_id,
      folder_mode, folder1_set, folder2_set, total_images, current_image_index,
      load_threads, psnr_threads, main_queue,
      toggle_pressed, dragging, slider_drag, last_drag_x, last_drag_y, timers>>

\* the PSNR workers between their launch and the delivery of their callback
PsnrInFlight ==
    Len(psnr_threads) + Len(SelectSeq(main_queue, LAMBDA c : c.kind = "psnr_done"))

PsnrPrecondition == psnr_precondition(Cur)

C3_PsnrOfCurrentPair ==
    current_psnr # PsnrNone =>
        /\ PsnrPrecondition
        /\ current_psnr = PsnrOf(im1_orig, im2_orig)

Finishes == {"finish_single", "finish_pair"}

\* C4: the step that completes a load (single or pair) leaves current_psnr
\* unavailable, and it stays unavailable until the completion callback of a
\* calculation is delivered
C4_LoadClearsPsnr ==
    [][/\ act' \in Finishes => current_psnr' = PsnrNone
       /\ current_psnr = PsnrNone /\ current_psnr' # PsnrNone =>
              act' = "on_psnr_calculated"]_vars

\* C5: a step of a worker thread writes no field of the application: not the
\* image slots, the loading flag, the status text, current_psnr, the
\* in-progress flag or the view state
C5_WorkersWriteNoSharedState ==
    [][ctx' = "worker" =>
          UNCHANGED <<disp_cache, zoom, pan_x, pan_y, split_pos, mode, toggle_idx,
                      im1_orig, im2_orig, im1_raw, im2_raw, im_diff, im_diff_key,
                      im_diff_key2, loading, status, current_psnr, in_progress,
                      refresh_after_id, folder_mode, folder1_set, folder2_set,
                      total_images, current_image_index, toggle_pressed,
                      dragging, slider_drag, last_drag_x, last_drag_y>>]_vars

\* C12: a step launches a PSNR worker only if, when it ends, both images are
\* present and have the same pixel dimensions; a start_calculation call made
\* when they are not sets current_psnr to None, launches no worker and leaves
\* the in-progress flag as it was
C12_LaunchOnlyWhenComparable ==
    [][/\ Len(psnr_threads') > Len(psnr_threads) =>
              /\ im1_orig' # NoneIm /\ im2_orig' # NoneIm
              /\ SameSize(im1_orig', im2_orig')
       /\ act' = "start_calculation" /\ ~PsnrPrecondition =>
              /\ current_psnr' = PsnrNone
              /\ psnr_threads' = psnr_threads
              /\ in_progress' = in_progress]_vars

\* C12 witness: start_calculation was called while a calculation was in
\* progress for a pair of which one image has since been replaced by a
\* failed load
C12_Witness ==
    /\ act = "start_calculation" /\ ~PsnrPrecondition /\ in_progress
    /\ current_psnr = PsnrNone /\ PsnrInFlight = 1
    /\ (im1_orig = NoneIm) # (im2_orig = NoneIm)

\* the callback at the head of the queue delivers a failed calculation: the
\* worker read a missing image or two images of different sizes
FailedDelivery == Posted("psnr_done") /\ Head(main_queue).value = PsnrZero

\* C13: when the computation failed inside the worker, the delivery of its
\* result leaves current_psnr unavailable (None), never a number, and no step
\* of a worker raises
C13_FailurePublishesNone ==
    [][/\ FailedDelivery /\ act' = "on_psnr_calculated" => current_psnr' = PsnrNone
       /\ ctx' = "worker" => ~raised']_vars

\* ------------------------------------------------------------------------
\* Claims about the view
\* ------------------------------------------------------------------------

ZoomInRange(z) == RatLe(ZOOM_MIN, z) /\ RatLe(z, ZOOM_MAX)

\* C6: zoom is in [ZOOM_MIN, ZOOM_MAX] in every reachable state
C6_ZoomClamped == ZoomInRange(zoom)

\* n zoom_in calls directly followed by n zoom_out calls have just run,
\* starting from a zoom in range
RoundTripDone == trip.ins >= 1 /\ trip.outs = trip.ins /\ ZoomInRange(trip.z0)

\* z * ZOOM_STEP^k
RECURSIVE ZoomSteppedUp(_, _)
ZoomSteppedUp(z, k) == IF k = 0 THEN z ELSE ZoomSteppedUp(RatMul(z, ZOOM_STEP), k - 1)

C8_RedrawNeverRaises == ~raised

\* C14: a release that follows a press which flipped toggle_idx (toggle mode,
\* both images loaded) leaves toggle_idx at its value before the press and
\* toggle_pressed false, whatever was delivered while the button was held
C14_ReleaseRestoresToggle ==
    [][act' = "on_b1_up" /\ press.idx # 0 =>
           toggle_idx' = press.idx /\ ~toggle_pressed']_vars

\* C18: pan_x and pan_y lie in [-10, 10], split_pos in [0, 1] and toggle_idx
\* is 1 or 2, in every reachable state
C18_ViewStateInRange ==
    /\ FracLe(PAN_MIN, pan_x) /\ FracLe(pan_x, PAN_MAX)
    /\ FracLe(PAN_MIN, pan_y) /\ FracLe(pan_y, PAN_MAX)
    /\ FracLe(SPLIT_MIN, split_pos) /\ FracLe(split_pos, SPLIT_MAX)
    /\ toggle_idx \in {1, 2}

\* C18 witness: with image 2 toggled in, a drag has just run pan_x and pan_y
\* into their lower limits after a drag of the slider line had run the split
\* position into its upper limit
C18_Witness ==
    /\ act = "on_b1_move" /\ pan_x = PAN_MIN /\ pan_y = PAN_MIN
    /\ split_pos = SPLIT_MAX /\ toggle_idx = 2

\* C15: at most one debounced redraw is scheduled at any time; a
\* non-immediate request redraws nothing itself, cancels the pending timer
\* and leaves exactly one, new, timer pending; and when that timer's delay
\* elapses exactly one redraw is made and none stays scheduled: a burst of
\* requests not separated by a timer firing causes one redraw, after the last
C15_BurstCausesOneRedraw ==
    /\ [](Cardinality(timers) <= 1)
    /\ [][act' = "schedule_refresh" =>
            /\ redraws' = 0
            /\ timers' = {refresh_after_id'}
            /\ refresh_after_id' \notin timers \cup {NoTimer}]_vars
    /\ [][act' = "do_refresh" =>
            redraws' = 1 /\ ~raised' /\ timers' = {}]_vars

\* C16: an immediate refresh request (the <Configure> handler is one and
\* nothing else) makes exactly one redraw before it returns and leaves no
\* timer pending, and a timer id once cancelled is never pending again
C16_ImmediateRedrawsOnceAndCancels ==
    /\ [][act' = "configure" =>
            /\ redraws' = 1 /\ ~raised'
            /\ timers' = {} /\ refresh_after_id' = NoTimer]_vars
    /\ [][\A id \in timers' \ timers : id >= nextTimer]_vars

\* the image fit_win refers to: image 1 if it is loaded, else image 2
FitImage == IF im1_orig # NoneIm THEN im1_orig ELSE im2_orig

\* C19: with an image loaded and a viewport larger than 1 pixel both ways,
\* fit_win sets zoom to max(0.01, min(viewport_w / image_w, viewport_h /
\* image_h)) and the pan to (0, 0); a 2000 x 1000 image in a 400 x 300
\* viewport gets the zoom 0.2
C19_FitWinZoom ==
    [][act' = "fit_win" /\ FitImage # NoneIm /\ cw > 1 /\ ch > 1 =>
          /\ \/ zoom' = Rat(cw, FitImage.w) /\ RatLe(zoom', Rat(ch, FitImage.h))
                         /\ RatLe(FIT_MIN, zoom')
             \/ zoom' = Rat(ch, FitImage.h) /\ RatLe(zoom', Rat(cw, FitImage.w))
                         /\ RatLe(FIT_MIN, zoom')
             \/ zoom' = FIT_MIN /\ \/ RatLe(Rat(cw, FitImage.w), FIT_MIN)
                                   \/ RatLe(Rat(ch, FitImage.h), FIT_MIN)
          /\ pan_x' = PAN_ZERO /\ pan_y' = PAN_ZERO
          /\ (FitImage.w = 2000 /\ FitImage.h = 1000 /\ cw = 400 /\ ch = 300
                  => zoom' = Rat(1, 5))]_vars

\* C19 witness: fit_win has just fitted the 2000 x 1000 image into the
\* 400 x 300 viewport, and redrawn
C19_Witness ==
    /\ act = "fit_win" /\ cw = 400 /\ ch = 300
    /\ FitImage.w = 2000 /\ FitImage.h = 1000
    /\ zoom = Rat(1, 5) /\ redraws = 1

\* the zoom fit_win computes for the images a, b in a viewport of vw x vh, and
\* 1.0 when no image is loaded or the viewport is not larger than 1 pixel
FitZoomOr1x(a, b, vw, vh) ==
    IF (a = NoneIm /\ b = NoneIm) \/ vw <= 1 \/ vh <= 1 THEN ZOOM_1X
    ELSE IF a # NoneIm
    THEN RatMax(FIT_MIN, RatMin(Rat(vw, a.w), Rat(vh, a.h)))
    ELSE RatMax(FIT_MIN, RatMin(Rat(vw, b.w), Rat(vh, b.h)))

\* C17: after every mode switch and every completed load the pan is (0, 0),
\* split_pos is 0.5, zoom is the fit zoom when an image is loaded and the
\* viewport is larger than 1 pixel both ways and 1.0 otherwise, and the
\* operation has made a redraw and returned
C17_SwitchAndLoadResetView ==
    [][act' \in Finishes \cup {"on_mode_change"} =>
          /\ pan_x' = PAN_ZERO /\ pan_y' = PAN_ZERO
          /\ split_pos' = SPLIT_HALF
          /\ zoom' = FitZoomOr1x(im1_orig', im2_orig', cw', ch')
          /\ redraws' >= 1 /\ ~raised']_vars

\* a point has been mapped to the canvas and back
Probed == act = "canvas_to_image" /\ probe # NoProbe

HeldIds == {im1_orig.id, im2_orig.id, im_diff.id} \ {NoneIm.id}

Replaced == im1_orig' # im1_orig \/ im2_orig' # im2_orig

\* C11: a load completion that replaces im1_orig or im2_orig empties the
\* cache in the same step (what the step's redraws cache afterwards is keyed
\* by images held after it), so every cache key names an image currently
\* held: im1_orig, im2_orig or the difference image
C11_CacheKeysNameHeldImages ==
    /\ [][act' \in Finishes /\ Replaced =>
            \A k \in CacheKeys(disp_cache') : k[1] \notin HeldIds \ HeldIds']_vars
    /\ [](\A k \in CacheKeys(disp_cache) : k[1] \in HeldIds)

\* C11 witness: a single load has completed whose auto-alignment replaced
\* image 1 by a padded copy, with the difference image cached
C11_Witness ==
    /\ act = "on_mode_change" /\ mode = "difference"
    /\ im1_orig # im1_raw /\ im2_orig # NoneIm
    /\ \E k \in CacheKeys(disp_cache) : k[1] = im_diff.id

\* ------------------------------------------------------------------------
\* Claims about the sizes of the loaded images
\* ------------------------------------------------------------------------

BothPresent == im1_orig # NoneIm /\ im2_orig # NoneIm

\* C29: whenever im1_orig and im2_orig are both present they have the same
\* width and height: a single load into either slot leaves both at
\* (max width, max height) of the two decoded images, a folder-pair load
\* leaves both at the uniform size
C29_LoadedImagesSameSize ==
    /\ [](BothPresent => SameSize(im1_orig, im2_orig))
    /\ [][act' = "finish_single" /\ BothPresent' =>
            /\ im1_orig'.w = Max(im1_raw'.w, im2_raw'.w)
            /\ im1_orig'.h = Max(im1_raw'.h, im2_raw'.h)]_vars
    /\ [][act' = "finish_pair" /\ BothPresent' =>
            <<im1_orig'.w, im1_orig'.h>> = UNIFORM_SIZE]_vars

\* C29 witness: a single load has completed that left two decoded images of
\* different sizes, the smaller one replaced by a padded copy
C29_Witness ==
    /\ act = "finish_single" /\ BothPresent
    /\ ~SameSize(im1_raw, im2_raw)
    /\ im1_orig # im1_raw \/ im2_orig # im2_raw

\* ------------------------------------------------------------------------
\* Claims about dragging the split line
\* ------------------------------------------------------------------------

\* the image-space x of the canvas point p in the current view
ImageX(p) == canvas_to_image(Cur, p[1], p[2]).ix

\* floor(image1_width * split_pos)
SplitIx == Trunc(im1_orig.w * split_pos.n, split_pos.d)

\* diff <= max(3, 6 / max(0.5, zoom))
WithinTolerance(diff) ==
    \/ diff <= 3
    \/ RatLe(RatMul(Rat(diff, 1), RatMax(Rat(1, 2), zoom)), Rat(6, 1))

\* clamp(ix / image1_width, 0, 1)
SplitAt(ix) ==
    IF ix <= 0 THEN SPLIT_MIN
    ELSE IF ix >= im1_orig.w THEN SPLIT_MAX
    ELSE FracNorm(ix, im1_orig.w)

\* C27: in slider mode with image 1 loaded, a press whose image-space x is
\* within max(3, 6 / max(0.5, zoom)) of floor(width * split_pos) engages the
\* slider drag and no pan drag; while the slider drag is engaged a move
\* sets split_pos to clamp(image_x / width, 0, 1) and leaves the pan as it
\* is; a release clears both flags
C27_SliderDrag ==
    /\ [][\A p \in MousePoints :
              /\ B1Down(p[1], p[2], TRUE)
              /\ mode = "slider" /\ im1_orig # NoneIm
              /\ WithinTolerance(Abs(ImageX(p) - SplitIx))
              => slider_drag' /\ ~dragging']_vars
    /\ [][\A p \in MousePoints :
              /\ B1Move(p[1], p[2], TRUE)
              /\ slider_drag /\ im1_orig # NoneIm
              => /\ split_pos' = SplitAt(ImageX(p))
                 /\ pan_x' = pan_x /\ pan_y' = pan_y]_vars
    /\ [][act' = "on_b1_up" => ~slider_drag' /\ ~dragging']_vars

\* C27 witness: the split line has been dragged off its initial position
\* and the button is still held
C27_Witness ==
    /\ act = "on_b1_move" /\ slider_drag /\ ~dragging /\ press.down
    /\ mode = "slider" /\ split_pos = SPLIT_MAX

\* ------------------------------------------------------------------------
\* Claims about stepping through the folder pairs
\* ------------------------------------------------------------------------

\* every background load has completed: no load thread runs and no finish
\* callback waits in the queue
LoadsCompleted ==
    /\ load_threads = <<>>
    /\ \A i \in 1..Len(main_queue) : main_queue[i].kind \notin Finishes

\* the files of the pair at current_image_index, and what they decode to
CurrentPair == FolderPairs[current_image_index + 1]
CurrentDecoded == load_image_pair(CurrentPair[1], CurrentPair[2], UNIFORM_SIZE, 1)

SameImage(a, b) == (a = NoneIm) = (b = NoneIm) /\ SameSize(a, b)

\* C30: in folder mode, once all background loads have completed, the
\* displayed pair (im1_path, im2_path, im1_orig, im2_orig) is the pair at
\* current_image_index, whatever the order in which the load threads finish
C30_DisplayedPairIsCurrent ==
    folder_mode /\ total_images > 0 /\ LoadsCompleted =>
        /\ im1_path = CurrentPair[1] /\ im2_path = CurrentPair[2]
        /\ SameImage(im1_orig, CurrentDecoded[1])
        /\ SameImage(im2_orig, CurrentDecoded[2])

\* ------------------------------------------------------------------------
\* Claims about the completion of PSNR calculations
\* ------------------------------------------------------------------------

\* C26: every launched calculation ends: the in-progress flag, once set, is
\* eventually cleared, and it is cleared only by the callback that runs on
\* the interactive context and stores the value the worker posted, a
\* failed calculation's included; so no later request is suppressed forever
C26_CalculationEnds ==
    /\ (in_progress ~> ~in_progress)
    /\ [][in_progress /\ ~in_progress' =>
            /\ ctx' = "ui" /\ act' = "on_psnr_calculated"
            /\ Posted("psnr_done")
            /\ current_psnr' = Head(main_queue).value]_vars
    /\ [](in_progress <=>
              \/ psnr_threads # <<>>
              \/ \E i \in 1..Len(main_queue) : main_queue[i].kind = "psnr_done")

\* C26 witness: the callback of a calculation that failed (an image was
\* replaced by an undecodable file while it ran) has cleared the flag
C26_Witness ==
    /\ act = "on_psnr_calculated" /\ ~in_progress
    /\ current_psnr = PsnrZero /\ psnr_threads = <<>>

\* every thread has run to its end and every posted callback has run:
\* nothing happens any more unless a new load is requested
AtRest == load_threads = <<>> /\ psnr_threads = <<>> /\ main_queue = <<>>

\* C28: if both images are loaded with the same dimensions and no further
\* load occurs, then eventually the calculation finishes and current_psnr
\* is the PSNR of the loaded pair: once the program has come to rest with
\* such a pair loaded, current_psnr is the PSNR of that pair, also when the
\* pair was loaded while an earlier calculation was in progress
C28_PsnrOfLoadedPairAtRest ==
    BothPresent /\ SameSize(im1_orig, im2_orig) /\ AtRest
        => current_psnr = PsnrOf(im1_orig, im2_orig)

\* ------------------------------------------------------------------------
\* Claims about what is drawn
\* ------------------------------------------------------------------------

\* C21: whenever the magnifier overlay is drawn, its rectangle lies inside
\* the viewport: x >= 0, y >= 0, x + width <= cw and y + height <= ch
C21_OverlayInsideViewport ==
    canvas.tag = "magnifier" =>
        /\ canvas.x >= 0 /\ canvas.y >= 0
        /\ canvas.x + canvas.w <= cw /\ canvas.y + canvas.h <= ch

\* floor(displayed_width1 * split_pos) right of the left edge of image 1
SplitBoundary == canvas.left1 + Trunc(canvas.w1 * split_pos.n, split_pos.d)

\* C24: in slider mode with image 1 displayed, the split line is drawn at
\* canvas x = left1 + floor(displayed_width1 * split_pos), image 2 is
\* composited only at canvas x at or right of that boundary, and image 1
\* stays visible left of it
C24_SplitBoundary ==
    canvas.tag = "slider" /\ canvas.has1 =>
        /\ canvas.line => canvas.line_x = SplitBoundary
        /\ canvas.has2 => canvas.from2 >= SplitBoundary
        /\ canvas.has2 /\ canvas.from2 < canvas.left1 + canvas.w1
               => canvas.from2 = SplitBoundary

\* C24 witness: an image 1000 wide at zoom 1.0 with split_pos 0.3 has the
\* line at left + 300 and image 2 from there on
C24_Witness ==
    /\ canvas.tag = "slider" /\ canvas.has1 /\ canvas.has2 /\ canvas.line
    /\ canvas.w1 = 1000 /\ zoom = ZOOM_1X /\ split_pos = [n |-> 3, d |-> 10]
    /\ canvas.line_x = canvas.left1 + 300
    /\ canvas.from2 = canvas.line_x

\* the difference of pixel i of the two loaded images: the largest over
\* the channels of |image1 - image2|
PixelDiff(i) ==
    SetMax({Abs(pixels.a[i][c] - pixels.b[i][c]) : c \in 1..3})

LargestDiff == SetMax({PixelDiff(i) : i \in 1..Len(pixels.a)})

\* C22: the difference bitmap of (A, B) equals pixel for pixel the one of
\* (B, A)
C22_DifferenceSymmetric ==
    canvas.tag = "difference" =>
        canvas.out = compute_difference(pixels.b, pixels.a)

\* C22 witness: a difference was computed for two images of which one is
\* brighter in one channel and darker in another
C22_Witness ==
    /\ canvas.tag = "difference"
    /\ \E i \in 1..2, c \in 1..3 : pixels.a[i][c] < pixels.b[i][c]
    /\ \E i \in 1..2, c \in 1..3 : pixels.a[i][c] > pixels.b[i][c]
    /\ \E i \in 1..2 : canvas.out[i] \notin {0, 255}

\* C23: the difference bitmap is zero everywhere when the images are
\* identical; otherwise each pixel is floor(255 * d / dmax), d being the
\* pixel's largest channel difference and dmax the largest d of the image,
\* so every value is in 0..255 and a pixel with d = dmax is 255
C23_DifferenceNormalized ==
    canvas.tag = "difference" =>
        /\ Len(canvas.out) = Len(pixels.a)
        /\ \A i \in 1..Len(canvas.out) :
               /\ canvas.out[i] \in 0..255
               /\ IF pixels.a = pixels.b THEN canvas.out[i] = 0
                  ELSE /\ canvas.out[i] = (255 * PixelDiff(i)) \div LargestDiff
                       /\ PixelDiff(i) = LargestDiff => canvas.out[i] = 255

\* C23 witness: a difference with a pixel of 255 and one strictly between
\* 0 and 255 was computed from a pair whose subtraction is negative somewhere
C23_Witness ==
    /\ canvas.tag = "difference"
    /\ \E i \in 1..2 : canvas.out[i] = 255
    /\ \E i \in 1..2 : canvas.out[i] > 0 /\ canvas.out[i] < 255
    /\ \E i \in 1..2, c \in 1..3 : pixels.a[i][c] < pixels.b[i][c]

====
